---- MODULE Spec2Model ----
(***************************************************************************)
(* Model of the document-assembly pipeline of ibc-15kv-reporting:          *)
(* report.generate_reports (report.py) and the helpers it calls.           *)
(*                                                                         *)
(* Strings are sequences of one-character strings, so that strip() is      *)
(* computed rather than assumed.  Lengths in millimetres are integers in   *)
(* units of 1/20 mm: a spacing given in tenths of a millimetre and its     *)
(* half are both exact, as they are in binary floating point.              *)
(***************************************************************************)
EXTENDS Integers, Sequences, FiniteSets, TLC

(***************************************************************************)
(* Bounds of the model.                                                    *)
(***************************************************************************)
MaxRows == 2          \* longest filtered_rows list
MaxImages == 3        \* longest list of uploaded images under one key
MaxSpacingTenths == 30  \* largest spacing_mm explored for the pure margin rule, in 1/10 mm
MaxColumns == 4       \* largest total_columns explored for the pure margin rule
MaxNegativeTenths == 5  \* most negative spacing_mm explored for the pure margin rule, in 1/10 mm
MaxRawLen == 16       \* longest raw sheet row
MaxSheetLen == 2      \* most rows of a sheet
MaxUniqueRows == 3    \* longest row list given to get_unique_sites_and_dates
MaxFiles == 2         \* most entries of the asset directories
MaxNameLen == 4       \* longest string given to safe_filename
MaxLenArg == 4        \* largest max_len given to safe_filename
MaxParts == 2         \* most parts of a template
MaxFlowRows == 3      \* most rows of the sheet given to the app flow
MaxUploadKeys == 2    \* most (site, date) keys of the uploads given to save_offline_cache
MaxTextLines == 3     \* most lines of a pasted report text

(***************************************************************************)
(* Python values that are not the expected type, and small helpers.        *)
(***************************************************************************)
PyInt(n) == [t |-> "int", v |-> n]
PyStr == [t |-> "str", v |-> 0]      \* a non-numeric string such as "abc"
PyNone == [t |-> "none", v |-> 0]

Max(a, b) == IF a >= b THEN a ELSE b

Whitespace == {" ", "\t"}

RECURSIVE lstrip(_)
lstrip(s) == IF s # <<>> /\ Head(s) \in Whitespace THEN lstrip(Tail(s)) ELSE s

RECURSIVE rstrip(_)
rstrip(s) ==
    IF s # <<>> /\ s[Len(s)] \in Whitespace THEN rstrip(SubSeq(s, 1, Len(s) - 1)) ELSE s

\* str.strip()
strip(s) == rstrip(lstrip(s))

\* (row + [""] * 14)[:14]
RowWidth == 14

\* a plausible slip: padding without the [:14] slice
normalize_row_pad_only(row) == row \o [i \in 1..(RowWidth - Len(row)) |-> <<>>]

normalize_row(row) == SubSeq(row \o [i \in 1..RowWidth |-> <<>>], 1, RowWidth)

(***************************************************************************)
(* Lengths.  A value v stands for v/20 mm.                                 *)
(***************************************************************************)
TenthsToUnits(t) == 2 * t
MmToUnits(mm) == TenthsToUnits(10 * mm)

\* Python round() on a non-negative quotient n/d: nearest integer, ties to even
py_round(n, d) ==
    LET q == n \div d
        r == n % d
    IN  IF 2 * r < d THEN q
        ELSE IF 2 * r > d THEN q + 1
        ELSE IF q % 2 = 0 THEN q ELSE q + 1

\* a plausible slip: int() truncation instead of round()
mm_to_twips_truncating(mm_value) ==
    Max(0, (mm_value * 1440) \div (254 * 2))

\* _mm_to_twips: twips = mm * 1440 / 25.4; max(0, int(round(twips))).
\* With mm = mm_value / 20 the quotient is mm_value * 1440 / (25.4 * 20).
mm_to_twips(mm_value) ==
    Max(0, py_round(mm_value * 1440, 254 * 2))

\* a plausible slip: the inner gap is not halved
apply_cell_spacing_full_inner(spacing_mm, column_index, total_columns) ==
    LET s == Max(0, spacing_mm)
    IN  [left |-> s, right |-> s,
         tcMar |-> [top |-> mm_to_twips(s), bottom |-> mm_to_twips(s),
                    left |-> mm_to_twips(s), right |-> mm_to_twips(s)]]

\* _apply_cell_spacing: the (left, right) it returns, in 1/20 mm, and the
\* four margins it sets on the cell through _set_cell_margin, in twips
apply_cell_spacing(spacing_mm, column_index, total_columns) ==
    LET s == Max(0, spacing_mm)
        top_bottom == s
        inner_gap == s \div 2
        left == IF total_columns <= 1 THEN s
                ELSE IF column_index = 0 THEN s ELSE inner_gap
        right == IF total_columns <= 1 THEN s
                 ELSE IF column_index = total_columns - 1 THEN s ELSE inner_gap
    IN  [left |-> left, right |-> right,
         tcMar |-> [top |-> mm_to_twips(top_bottom), bottom |-> mm_to_twips(top_bottom),
                    left |-> mm_to_twips(left), right |-> mm_to_twips(right)]]

(***************************************************************************)
(* Inputs of generate_reports.                                             *)
(***************************************************************************)
\* sheet rows: ragged lists of cells, column 0 the date, column 1 the site
RowSiteA == << <<"7">>, <<"A">> >>
RowSiteAPadded == << <<" ", "7">>, <<"A", " ">>, <<"x">> >>
RowSiteB == << <<"7">>, <<"B">>, <<>>, <<"w">> >>
RowBlank == << >>
RowPool == {RowSiteA, RowSiteAPadded, RowSiteB, RowBlank}

RECURSIVE SeqsUpTo(_, _)
SeqsUpTo(S, n) ==
    IF n = 0 THEN {<<>>}
    ELSE LET shorter == SeqsUpTo(S, n - 1)
         IN  shorter \cup {Append(q, x) : q \in {r \in shorter : Len(r) = n - 1}, x \in S}

\* an uploaded image: bytes that decode as a picture, or bytes that do not
ImageBlobs == {"png", "junk"}

KeySiteA == << <<"A">>, <<"7">> >>
PyList(l) == [t |-> "list", v |-> l]
NoUploads == [t |-> "none", v |-> <<>>]
\* uploaded_image_mapping: (site, date) -> list of blobs, or None, or no key at all
UploadMappings ==
    {<< >>} \cup
    {[k \in {KeySiteA} |-> val] : val \in {NoUploads} \cup {PyList(l) : l \in SeqsUpTo(ImageBlobs, MaxImages)}}

\* the template file on disk
TemplateStates == {"unreadable", "bad_part", "ok", "lacks_placeholders"}

ImgPerRowPool == {PyStr, PyNone, PyInt(-1), PyInt(0), PyInt(1), PyInt(2), PyInt(3)}

\* img_width_mm, img_height_mm, spacing_mm (in 1/10 mm) and add_border
Layout(w, h, s, b) == [width |-> w, height |-> h, spacing |-> s, border |-> b]
LayoutPool ==
    {Layout(PyStr, PyInt(60), 20, FALSE),
     Layout(PyInt(70), PyInt(60), 20, FALSE),
     Layout(PyInt(70), PyInt(0), 10, TRUE),
     Layout(PyInt(0), PyInt(60), 0, FALSE),
     Layout(PyInt(185), PyInt(148), 25, FALSE),
     Layout(PyInt(42), PyInt(25), 50, TRUE),
     Layout(PyInt(70), PyInt(60), -10, FALSE)}

(***************************************************************************)
(* State.                                                                  *)
(***************************************************************************)
VARIABLES
    pc,                      \* position in generate_reports
    template,                \* state of the file at template_path
    filtered_rows,           \* argument
    uploaded_image_mapping,  \* argument
    img_width_mm,            \* argument
    img_height_mm,           \* argument
    spacing_mm,              \* argument, in 1/10 mm
    img_per_row,             \* argument
    add_border,              \* argument
    sanitized_template,      \* the temporary copy: "none", "exists", "removed"
    images_per_row,          \* local
    table_columns,           \* local
    content_width_mm,        \* local, in mm
    content_height_mm,       \* local, in mm; 0 stands for None
    row_no,                  \* number of rows of filtered_rows the loop has started
    image_bytes,             \* local: the blobs of the current row
    idx,                     \* local: 0-based index of the image loop
    row_cells,               \* local: scratch files of the current group
    images_subdoc,           \* local: the gallery of the current row
    scratch,                 \* scratch image files existing on disk
    rendered,                \* documents rendered so far
    archive,                 \* names of the entries written to zipf
    warnings,                \* st.warning calls
    exc,                     \* exception in flight or raised, "none" if none
    result,                  \* what the call returned, NoResult until it returns
    sp_spacing,              \* margin rule alone: spacing_mm in 1/10 mm
    sp_total,                \* margin rule alone: total_columns
    sp_cells,                \* margin rule alone: results for columns 0, 1, ...
    lib_call,                \* a helper called on its own: its name and arguments
    lib_ret,                 \* what that call returned, NotReturned before it returns
    call_no,                 \* repeated calls: 1 during the first call, 2 during the second
    previous,                \* repeated calls: what the first call left, NoOutcome before
    used_names,              \* local of generate_reports: the collision counter
    cache_file,              \* cache sync: the offline cache file
    saved_rows,              \* cache sync: the rows that were saved into the cache file
    sheet_rows,              \* cache sync: the rows appended to the sheet so far
    sync_status              \* cache sync: what the last run of the sync block showed

argVars == <<template, filtered_rows, uploaded_image_mapping, img_width_mm,
             img_height_mm, spacing_mm, img_per_row, add_border>>
localVars == <<images_per_row, table_columns, content_width_mm, content_height_mm,
               row_no, image_bytes, idx, row_cells, images_subdoc>>
effectVars == <<sanitized_template, scratch, rendered, archive, warnings, exc, result>>
genVars == <<pc, argVars, localVars, effectVars>>
spVars == <<sp_spacing, sp_total, sp_cells>>
libVars == <<lib_call, lib_ret>>
repVars == <<call_no, previous, used_names>>
syncVars == <<cache_file, saved_rows, sheet_rows, sync_status>>
vars == <<genVars, spVars, libVars, repVars, syncVars>>

NoCall == [fn |-> "none"]
NotReturned == [returned |-> FALSE]
LibIdle ==
    /\ lib_call = NoCall
    /\ lib_ret = NotReturned

NoResult == [returned |-> FALSE, entries |-> <<>>]

\* a local name before its assignment, and the empty dict {}
Unbound == [t |-> "unbound", v |-> <<>>]
PyDict(d) == [t |-> "dict", v |-> d]
NoOutcome == [finished |-> FALSE]
RepIdle ==
    /\ call_no = 1
    /\ previous = NoOutcome
    /\ used_names = Unbound

NoFile == [present |-> FALSE, tokens |-> <<>>]
SyncIdle ==
    /\ cache_file = NoFile
    /\ saved_rows = <<>>
    /\ sheet_rows = <<>>
    /\ sync_status = "none"

(***************************************************************************)
(* Initial state: generate_reports has just been called.                   *)
(***************************************************************************)
InitGen ==
    /\ pc = "sanitize"
    /\ template \in TemplateStates
    /\ filtered_rows \in SeqsUpTo(RowPool, MaxRows)
    /\ uploaded_image_mapping \in UploadMappings
    /\ \E l \in LayoutPool :
          /\ img_width_mm = l.width
          /\ img_height_mm = l.height
          /\ spacing_mm = l.spacing
          /\ add_border = l.border
    /\ img_per_row \in ImgPerRowPool
    /\ sanitized_template = "none"
    /\ images_per_row = 0
    /\ table_columns = 0
    /\ content_width_mm = 0
    /\ content_height_mm = 0
    /\ row_no = 0
    /\ image_bytes = <<>>
    /\ idx = 0
    /\ row_cells = <<>>
    /\ images_subdoc = <<>>
    /\ scratch = {}
    /\ rendered = <<>>
    /\ archive = <<>>
    /\ warnings = <<>>
    /\ exc = "none"
    /\ result = NoResult

SpIdle ==
    /\ sp_spacing = 0
    /\ sp_total = 0
    /\ sp_cells = <<>>

Init == InitGen /\ SpIdle /\ LibIdle /\ RepIdle /\ SyncIdle

(***************************************************************************)
(* _create_sanitized_template_copy (report.py 92-111).                     *)
(***************************************************************************)
\* a plausible slip: an unreadable template is tolerated and rendering goes on
create_sanitized_template_copy_lenient(t) ==
    [raises |-> t = "bad_part", tmp |-> TRUE]

\* what the call does for a template file in state t: whether it raises
\* and whether the NamedTemporaryFile(delete=False) was created on disk
create_sanitized_template_copy(t) ==
    IF t = "unreadable"
    THEN [raises |-> TRUE, tmp |-> FALSE]    \* ZipFile(template_path) raises first
    ELSE IF t = "bad_part"
    THEN [raises |-> TRUE, tmp |-> TRUE]     \* src.read(...) raises inside the with
    ELSE [raises |-> FALSE, tmp |-> TRUE]

\* report.py 167-168
Sanitize ==
    /\ pc = "sanitize"
    /\ LET o == create_sanitized_template_copy(template)
       IN  /\ sanitized_template' = IF o.tmp THEN "exists" ELSE "none"
           /\ exc' = IF o.raises THEN "BadZipFile" ELSE "none"
           /\ pc' = IF o.raises THEN "raised" ELSE "params"
    /\ UNCHANGED <<argVars, localVars, scratch, rendered, archive, warnings, result, spVars, libVars, repVars, syncVars>>

\* a plausible slip: int(img_per_row) without the floor of 1
effective_images_per_row_unclamped(arg) == IF arg.t = "int" THEN arg.v ELSE 1

\* report.py 169-172: max(1, int(img_per_row)), 1 on TypeError or ValueError
effective_images_per_row(arg) == IF arg.t = "int" THEN Max(1, arg.v) ELSE 1

\* report.py 169-179: the layout parameters, before the try block, and on
\* entering it the fresh collision counter
ValidateParams ==
    /\ pc = "params"
    /\ images_per_row' = effective_images_per_row(img_per_row)
    /\ table_columns' = Max(2, images_per_row')
    /\ IF img_width_mm.t = "int"
       THEN /\ content_width_mm' = Max(1, img_width_mm.v)
            /\ content_height_mm' = IF img_height_mm.v # 0 THEN img_height_mm.v ELSE 0
            /\ used_names' = PyDict(<<>>)
            /\ pc' = "loop"
            /\ exc' = exc
       ELSE /\ UNCHANGED <<content_width_mm, content_height_mm, used_names>>
            /\ pc' = "raised"
            /\ exc' = "ValueError"
    /\ UNCHANGED <<argVars, row_no, image_bytes, idx, row_cells, images_subdoc,
                   sanitized_template, scratch, rendered, archive, warnings, result, spVars, libVars,
                   call_no, previous, syncVars>>

(***************************************************************************)
(* The row loop (report.py 180-311).                                       *)
(***************************************************************************)
\* the fields of the row being processed, report.py 181-198
CurFields == normalize_row(filtered_rows[row_no])
site_name == strip(CurFields[2])
date == strip(CurFields[1])

\* uploaded_image_mapping.get((site_name, date), []) or []
images_for(mapping, site, d) ==
    LET key == <<site, d>>
    IN  IF key \in DOMAIN mapping /\ mapping[key].t = "list" THEN mapping[key].v ELSE <<>>

\* a plausible slip: .pop((site_name, date), []) takes the images out of the mapping
mapping_after_lookup_popped(mapping, site, d) ==
    [k \in DOMAIN mapping \ {<<site, d>>} |-> mapping[k]]

\* uploaded_image_mapping after .get((site_name, date), []): .get stores nothing
mapping_after_lookup(mapping, site, d) == mapping

\* report.py 180-219: unpack the next row, open the template, look up its images
BeginRow ==
    /\ pc = "loop"
    /\ row_no < Len(filtered_rows)
    /\ row_no' = row_no + 1
    /\ LET fields == normalize_row(filtered_rows[row_no + 1])
       IN  /\ image_bytes' = images_for(uploaded_image_mapping, strip(fields[2]), strip(fields[1]))
           /\ uploaded_image_mapping' =
                  mapping_after_lookup(uploaded_image_mapping, strip(fields[2]), strip(fields[1]))
    /\ warnings' = IF template = "lacks_placeholders"
                   THEN Append(warnings, "Template is missing placeholders")
                   ELSE warnings
    /\ images_subdoc' = <<>>
    /\ row_cells' = <<>>
    /\ idx' = 0
    /\ pc' = "images"
    /\ UNCHANGED <<template, filtered_rows, img_width_mm, img_height_mm, spacing_mm, img_per_row,
                   add_border, images_per_row, table_columns, content_width_mm, content_height_mm,
                   sanitized_template, scratch, rendered, archive, exc, result, spVars, libVars, repVars, syncVars>>

\* report.py 220-225: write one blob to a scratch file
WriteImage ==
    /\ pc = "images"
    /\ idx < Len(image_bytes)
    /\ LET tmp_img == <<row_no, idx>>
       IN  /\ scratch' = scratch \cup {tmp_img}
           /\ row_cells' = Append(row_cells, tmp_img)
    /\ IF (idx + 1) % images_per_row = 0 \/ idx = Len(image_bytes) - 1
       THEN pc' = "flush" /\ idx' = idx
       ELSE pc' = "images" /\ idx' = idx + 1
    /\ UNCHANGED <<argVars, images_per_row, table_columns, content_width_mm, content_height_mm,
                   row_no, image_bytes, images_subdoc,
                   sanitized_template, rendered, archive, warnings, exc, result, spVars, libVars, repVars, syncVars>>

NoPicture == [file |-> <<>>, width |-> 0, height |-> 0]
UnsetMargins == [top |-> -1, bottom |-> -1, left |-> -1, right |-> -1]
\* a cell of a fresh table
BlankCell == [tcMar |-> UnsetMargins, picture |-> NoPicture, border |-> FALSE, col_width |-> -1]

\* the blob written to a scratch file of the current row
blob_of(tmp_img) == image_bytes[tmp_img[2] + 1]

\* columns of the current group whose add_picture raises
BadColumns == {c \in 0..(Len(row_cells) - 1) : blob_of(row_cells[c + 1]) = "junk"}

\* a plausible slip: the group is laid out from its last image to its first
filled_cell_reversed(col_idx) ==
    LET m == apply_cell_spacing(TenthsToUnits(spacing_mm), col_idx, table_columns)
        occupied == col_idx < Len(row_cells)
    IN  [tcMar |-> m.tcMar,
         picture |-> IF occupied
                     THEN [file |-> row_cells[Len(row_cells) - col_idx],
                           width |-> content_width_mm,
                           height |-> IF content_height_mm # 0 THEN Max(1, content_height_mm) ELSE 0]
                     ELSE NoPicture,
         border |-> occupied /\ add_border,
         col_width |-> MmToUnits(content_width_mm) + m.left + m.right]

\* the cell at col_idx after the body of the column loop ran without raising
filled_cell(col_idx) ==
    LET m == apply_cell_spacing(TenthsToUnits(spacing_mm), col_idx, table_columns)
        occupied == col_idx < Len(row_cells)
    IN  [tcMar |-> m.tcMar,
         picture |-> IF occupied
                     THEN [file |-> row_cells[col_idx + 1],
                           width |-> content_width_mm,
                           height |-> IF content_height_mm # 0 THEN Max(1, content_height_mm) ELSE 0]
                     ELSE NoPicture,
         border |-> occupied /\ add_border,
         col_width |-> MmToUnits(content_width_mm) + m.left + m.right]

\* the cell whose add_picture raised: margins set, nothing else
failed_cell(col_idx) ==
    [BlankCell EXCEPT !.tcMar =
        apply_cell_spacing(TenthsToUnits(spacing_mm), col_idx, table_columns).tcMar]

Table(cells) == [kind |-> "table", cells |-> cells]
PageBreak == [kind |-> "page_break", cells |-> <<>>]

\* a plausible slip: the test for the last image is left out
page_break_due_also_last(i, per_row, n) == (i + 1) % (per_row * 2) = 0

\* report.py 271: (idx + 1) % (images_per_row * 2) == 0 and idx != len(image_bytes) - 1
page_break_due(i, per_row, n) == (i + 1) % (per_row * 2) = 0 /\ i # n - 1

\* report.py 226-272: one table for the group, pictures embedded, scratch removed
FlushGroup ==
    /\ pc = "flush"
    /\ IF BadColumns = {}
       THEN /\ LET table == Table([c \in 1..table_columns |-> filled_cell(c - 1)])
                   with_table == Append(images_subdoc, table)
               IN  images_subdoc' =
                       IF page_break_due(idx, images_per_row, Len(image_bytes))
                       THEN Append(with_table, PageBreak)
                       ELSE with_table
            /\ scratch' = scratch \ {row_cells[c] : c \in 1..Len(row_cells)}
            /\ row_cells' = <<>>
            /\ idx' = idx + 1
            /\ pc' = "images"
            /\ exc' = exc
       ELSE /\ LET bad == CHOOSE b \in BadColumns : \A o \in BadColumns : b <= o
                   table == Table([c \in 1..table_columns |->
                                     IF c - 1 < bad THEN filled_cell(c - 1)
                                     ELSE IF c - 1 = bad THEN failed_cell(bad)
                                     ELSE BlankCell])
               IN  /\ images_subdoc' = Append(images_subdoc, table)
                   /\ scratch' = scratch \ {row_cells[c] : c \in 1..bad}
            /\ UNCHANGED <<row_cells, idx>>
            /\ pc' = "finally"
            /\ exc' = "UnrecognizedImageError"
    /\ UNCHANGED <<argVars, images_per_row, table_columns, content_width_mm, content_height_mm,
                   row_no, image_bytes,
                   sanitized_template, rendered, archive, warnings, result, spVars, libVars, repVars, syncVars>>

\* report.py 274-311: build the context and render; nothing is saved or
\* written to zipf afterwards
RenderRow ==
    /\ pc = "images"
    /\ idx = Len(image_bytes)
    /\ \E render_ok \in BOOLEAN :
          IF render_ok
          THEN /\ rendered' = Append(rendered,
                                 [row |-> row_no,
                                  ctx |-> [Date |-> date, Site_Name |-> site_name],
                                  Images |-> images_subdoc])
               /\ pc' = "loop"
               /\ exc' = exc
          ELSE /\ rendered' = rendered
               /\ pc' = "finally"
               /\ exc' = "RenderError"
    /\ UNCHANGED <<argVars, localVars, sanitized_template, scratch, archive, warnings,
                   result, spVars, libVars, repVars, syncVars>>

\* report.py 180 and 178: the rows are exhausted and the with block is left
EndLoop ==
    /\ pc = "loop"
    /\ row_no = Len(filtered_rows)
    /\ pc' = "finally"
    /\ UNCHANGED <<argVars, localVars, effectVars, spVars, libVars, repVars, syncVars>>

\* report.py 313-319: remove the sanitized copy, then return or re-raise
Finally ==
    /\ pc = "finally"
    /\ sanitized_template' = "removed"
    /\ IF exc = "none"
       THEN pc' = "done" /\ result' = [returned |-> TRUE, entries |-> archive]
       ELSE pc' = "raised" /\ result' = result
    /\ UNCHANGED <<argVars, localVars, scratch, rendered, archive, warnings, exc, spVars, libVars, repVars, syncVars>>

Next ==
    \/ Sanitize
    \/ ValidateParams
    \/ BeginRow
    \/ WriteImage
    \/ FlushGroup
    \/ RenderRow
    \/ EndLoop
    \/ Finally

Spec == Init /\ [][Next]_vars

Terminated == pc \in {"done", "raised"}

(***************************************************************************)
(* Two calls of generate_reports in a row with the same arguments: what    *)
(* the first call left behind is what the second call starts from.         *)
(***************************************************************************)
\* what a finished call produced
Outcome ==
    [finished |-> TRUE, exc |-> exc, result |-> result, rendered |-> rendered,
     warnings |-> warnings, used_names |-> used_names]

InitRepeat ==
    /\ InitGen
    /\ template \in {"ok", "lacks_placeholders"}
    /\ img_per_row \in {PyNone, PyInt(1), PyInt(2)}
    /\ img_width_mm \in {PyStr, PyInt(42)}
    /\ SpIdle
    /\ LibIdle
    /\ RepIdle
    /\ SyncIdle

\* the caller calls generate_reports again with the objects it passed before:
\* the locals of the first call are gone, its arguments and the template
\* file are as the first call left them
CallAgain ==
    /\ Terminated
    /\ call_no = 1
    /\ call_no' = 2
    /\ previous' = Outcome
    /\ pc' = "sanitize"
    /\ used_names' = Unbound
    /\ sanitized_template' = "none"
    /\ images_per_row' = 0
    /\ table_columns' = 0
    /\ content_width_mm' = 0
    /\ content_height_mm' = 0
    /\ row_no' = 0
    /\ image_bytes' = <<>>
    /\ idx' = 0
    /\ row_cells' = <<>>
    /\ images_subdoc' = <<>>
    /\ scratch' = {}
    /\ rendered' = <<>>
    /\ archive' = <<>>
    /\ warnings' = <<>>
    /\ exc' = "none"
    /\ result' = NoResult
    /\ UNCHANGED <<argVars, spVars, libVars, syncVars>>

NextRepeat ==
    \/ Sanitize
    \/ ValidateParams
    \/ BeginRow
    \/ WriteImage
    \/ FlushGroup
    \/ RenderRow
    \/ EndLoop
    \/ Finally
    \/ CallAgain

SpecRepeat == InitRepeat /\ [][NextRepeat]_vars

(***************************************************************************)
(* The margin rule on its own: _apply_cell_spacing applied to the columns  *)
(* 0, 1, ... of one grid row, for a range of spacings and column counts.   *)
(***************************************************************************)
GenIdle ==
    /\ pc = "idle"
    /\ template = "ok"
    /\ filtered_rows = <<>>
    /\ uploaded_image_mapping = << >>
    /\ img_width_mm = PyInt(70)
    /\ img_height_mm = PyInt(60)
    /\ spacing_mm = 0
    /\ add_border = FALSE
    /\ img_per_row = PyInt(2)
    /\ sanitized_template = "none"
    /\ images_per_row = 0
    /\ table_columns = 0
    /\ content_width_mm = 0
    /\ content_height_mm = 0
    /\ row_no = 0
    /\ image_bytes = <<>>
    /\ idx = 0
    /\ row_cells = <<>>
    /\ images_subdoc = <<>>
    /\ scratch = {}
    /\ rendered = <<>>
    /\ archive = <<>>
    /\ warnings = <<>>
    /\ exc = "none"
    /\ result = NoResult

InitSpacing ==
    /\ GenIdle
    /\ LibIdle
    /\ RepIdle
    /\ SyncIdle
    /\ sp_spacing \in (-MaxNegativeTenths)..MaxSpacingTenths
    /\ sp_total \in 1..MaxColumns
    /\ sp_cells = <<>>

\* the call _apply_cell_spacing(cell, spacing_mm, col_idx, table_columns) for the next column
ApplyCellSpacing ==
    /\ Len(sp_cells) < sp_total
    /\ sp_cells' = Append(sp_cells,
                          apply_cell_spacing(TenthsToUnits(sp_spacing), Len(sp_cells), sp_total))
    /\ UNCHANGED <<sp_spacing, sp_total, genVars, libVars, repVars, syncVars>>

NextSpacing == ApplyCellSpacing

SpecSpacing == InitSpacing /\ [][NextSpacing]_vars

(***************************************************************************)
(* Properties.                                                             *)
(***************************************************************************)
Abs(x) == IF x < 0 THEN -x ELSE x

\* w is an integer nearest to num / den twentieths of a millimetre, in twips
NearestTwips(w, num, den) == 2 * Abs(w * 254 * 2 * den - num * 1440) <= 254 * 2 * den

IsPrefix(p, q) == Len(p) <= Len(q) /\ SubSeq(q, 1, Len(p)) = p
IsSuffix(p, q) == Len(p) <= Len(q) /\ SubSeq(q, Len(q) - Len(p) + 1, Len(q)) = p

\* the (site, date) key of the i-th input row
KeyOfRow(i) ==
    LET f == normalize_row(filtered_rows[i]) IN <<strip(f[2]), strip(f[1])>>

\* C1: the archive that generate_reports returns has exactly one entry per
\* input row.
C1_EntryPerRow ==
    pc = "done" => Len(result.entries) = Len(filtered_rows)

\* C2: in a batch where two rows share their (site, date), the returned
\* archive still has one name per row, all names differ, and the second
\* occurrence of a base name carries the suffix _2.
C2_UniqueSuffixedNames ==
    (pc = "done" /\ \E i, j \in 1..Len(filtered_rows) : i < j /\ KeyOfRow(i) = KeyOfRow(j))
    => /\ Len(result.entries) = Len(filtered_rows)
       /\ \A i, j \in 1..Len(result.entries) : i # j => result.entries[i] # result.entries[j]
       /\ \A j \in 1..Len(result.entries) :
             Cardinality({i \in 1..(j - 1) : KeyOfRow(i) = KeyOfRow(j)}) = 1
             => IsSuffix(<<"_", "2">>, result.entries[j])

\* C3: every row has an archive entry whose name is not empty and begins
\* with the row's trimmed site name, or with "report" when site and date
\* are both empty.
C3_NameFromSiteAndDate ==
    pc = "done" =>
        \A i \in 1..Len(filtered_rows) :
            /\ i <= Len(result.entries)
            /\ result.entries[i] # <<>>
            /\ IF KeyOfRow(i) = << <<>>, <<>> >>
               THEN IsPrefix(<<"r", "e", "p", "o", "r", "t">>, result.entries[i])
               ELSE IsPrefix(KeyOfRow(i)[1], result.entries[i])

\* C4: when generate_reports has ended, by return or by exception, the
\* temporary sanitized template no longer exists.
C4_SanitizedTemplateRemoved ==
    Terminated => sanitized_template # "exists"

\* C5: no scratch image file exists between rows or after the call has
\* ended, whether the embeds succeeded or one of them failed.
C5_ScratchImagesRemoved ==
    pc \in {"loop", "finally", "done", "raised"} => scratch = {}

\* C6: a row whose rendering or image embedding fails does not make
\* generate_reports raise; the loop goes on to the remaining rows.
C6_RowFailureIsolated ==
    (Terminated /\ exc \notin {"BadZipFile", "ValueError"})
    => pc = "done" /\ row_no = Len(filtered_rows)

\* C7: an image that cannot be embedded is skipped with a warning: no such
\* failure is ever in flight as an exception, and every started row whose
\* upload list holds an undecodable image still gets its document, with the
\* decodable images embedded.
PictureCount(doc) ==
    Cardinality({<<t, c>> \in (1..Len(doc.Images)) \X (1..MaxImages + 1) :
                    /\ c <= Len(doc.Images[t].cells)
                    /\ doc.Images[t].cells[c].picture # NoPicture})
GoodBlobs(i) ==
    LET blobs == images_for(uploaded_image_mapping, KeyOfRow(i)[1], KeyOfRow(i)[2])
    IN  Cardinality({k \in 1..Len(blobs) : blobs[k] = "png"})
C7_BadImageSkipped ==
    /\ exc # "UnrecognizedImageError"
    /\ \A d \in 1..Len(rendered) : PictureCount(rendered[d]) = GoodBlobs(rendered[d].row)

\* C8: when the template cannot be read as a container, the call raises
\* without returning anything and without starting or rendering any row.
C8_UnreadableTemplateAborts ==
    template \in {"unreadable", "bad_part"}
    => /\ pc \in {"sanitize", "raised"}
       /\ pc = "raised" => exc = "BadZipFile"
       /\ result = NoResult
       /\ rendered = <<>>
       /\ row_no = 0

C8_Witness ==
    /\ template = "unreadable"
    /\ pc = "raised"
    /\ filtered_rows # <<>>

\* the spacing the margin rule works with: a negative spacing counts as 0
EffectiveSpacing(tenths) == IF tenths < 0 THEN 0 ELSE TenthsToUnits(tenths)

\* C9: in a grid row of T >= 2 columns the first column's left margin and
\* the last column's right margin are the spacing s, every other left or
\* right margin is s/2, top and bottom are s, the two margins facing each
\* other between adjacent columns add up to s, and a negative spacing
\* gives the margins of spacing 0.
C9_MarginRule ==
    sp_total >= 2 =>
        LET s == EffectiveSpacing(sp_spacing)
        IN  /\ \A c \in 1..Len(sp_cells) :
                 /\ IF c = 1 THEN sp_cells[c].left = s ELSE 2 * sp_cells[c].left = s
                 /\ IF c = sp_total THEN sp_cells[c].right = s ELSE 2 * sp_cells[c].right = s
                 /\ NearestTwips(sp_cells[c].tcMar.top, s, 1)
                 /\ sp_cells[c].tcMar.bottom = sp_cells[c].tcMar.top
                 /\ NearestTwips(sp_cells[c].tcMar.left, sp_cells[c].left, 1)
                 /\ NearestTwips(sp_cells[c].tcMar.right, sp_cells[c].right, 1)
            /\ \A c \in 1..(Len(sp_cells) - 1) : sp_cells[c].right + sp_cells[c + 1].left = s
            /\ sp_spacing < 0 =>
                 \A c \in 1..Len(sp_cells) :
                     sp_cells[c].tcMar = [top |-> 0, bottom |-> 0, left |-> 0, right |-> 0]

C9_Witness ==
    /\ sp_total >= 3
    /\ Len(sp_cells) = sp_total
    /\ sp_spacing > 0
    /\ sp_spacing % 2 = 1

\* the tables of two pictures that a call with two images per row has built
PairTables ==
    LET galleries == {rendered[d].Images : d \in 1..Len(rendered)} \cup {images_subdoc}
    IN  {g[t].cells : <<g, t>> \in
            {<<g, t>> \in galleries \X (1..(MaxImages + 1)) :
                /\ t <= Len(g)
                /\ g[t].kind = "table"
                /\ Len(g[t].cells) = 2
                /\ g[t].cells[1].picture # NoPicture
                /\ g[t].cells[2].picture # NoPicture}}

\* C10 as amended: with s >= 0 and images two per row, the margins of the
\* two cells that face each other (right of the left-hand cell, left of the
\* right-hand cell) are both s/2 rounded to the nearest twip, and the two
\* outer margins are s rounded to the nearest twip.
C10_PairMargins ==
    (images_per_row = 2 /\ spacing_mm >= 0) =>
        \A cells \in PairTables :
            LET s == TenthsToUnits(spacing_mm)
            IN  /\ NearestTwips(cells[2].tcMar.left, s, 2)
                /\ NearestTwips(cells[1].tcMar.right, s, 2)
                /\ NearestTwips(cells[1].tcMar.left, s, 1)
                /\ NearestTwips(cells[2].tcMar.right, s, 1)

C10_Witness ==
    /\ images_per_row = 2
    /\ spacing_mm = 25
    /\ pc = "done"
    /\ PairTables # {}

\* C10 as stated: the left margin of the right-hand cell is s/2 and the
\* right margin of the left-hand cell is s.
C10_AsStated ==
    (images_per_row = 2 /\ spacing_mm >= 0) =>
        \A cells \in PairTables :
            LET s == TenthsToUnits(spacing_mm)
            IN  /\ NearestTwips(cells[2].tcMar.left, s, 2)
                /\ NearestTwips(cells[1].tcMar.right, s, 1)

\* C11: a call with img_per_row = 1 for a row with one uploaded image gives
\* a gallery with a cell whose left, right, top and bottom margins all
\* equal the configured spacing.
C11_SingleImageSymmetricMargins ==
    (pc = "done" /\ img_per_row = PyInt(1))
    => \A d \in 1..Len(rendered) :
          PictureCount(rendered[d]) = 1
          => \E t \in 1..Len(rendered[d].Images) :
                \E c \in 1..Len(rendered[d].Images[t].cells) :
                    LET m == rendered[d].Images[t].cells[c].tcMar
                        full == mm_to_twips(EffectiveSpacing(spacing_mm))
                    IN  m.left = full /\ m.right = full /\ m.top = full /\ m.bottom = full

(***************************************************************************)
(* Helpers called on their own.  lib_call holds the name of the helper     *)
(* and its arguments, lib_ret what it returned.                            *)
(***************************************************************************)
Returned(v) == [returned |-> TRUE, value |-> v]

\* ---- rows of the sheet and get_sheet_data (sheets.py 44-56, app.py 415-426)

\* the cell of column i of a filled row: one letter, different in each column
CellNames == <<"a", "b", "c", "d", "e", "f", "g", "h", "i", "j",
               "k", "l", "m", "n", "o", "p", "q", "r", "s", "t">>
cell_of(i) == <<CellNames[((i - 1) % Len(CellNames)) + 1]>>

\* a sheet row of n columns: every cell filled, every second cell empty, or
\* the last two cells empty
raw_row(n, shape) ==
    [i \in 1..n |->
        IF shape = "gaps" /\ i % 2 = 0 THEN <<>>
        ELSE IF shape = "tail" /\ i > n - 2 THEN <<>>
        ELSE cell_of(i)]
RawRows == {raw_row(n, shape) : n \in 0..MaxRawLen, shape \in {"full", "gaps", "tail"}}

RECURSIVE drop_trailing_empty(_)
drop_trailing_empty(q) ==
    IF q # <<>> /\ q[Len(q)] = <<>> THEN drop_trailing_empty(SubSeq(q, 1, Len(q) - 1)) ELSE q

\* sheet.values().get(range="<sheet>!A:<column ncols>").execute().get("values", []):
\* the service returns the cells of the requested columns only, and leaves
\* out trailing empty cells and trailing empty rows
values_get(sheet, ncols) ==
    drop_trailing_empty(
        [j \in 1..Len(sheet) |->
            drop_trailing_empty(SubSeq(sheet[j], 1, IF Len(sheet[j]) < ncols THEN Len(sheet[j]) ELSE ncols))])

\* row + [""] * max(0, expected_cols - len(row)), and row + [""] * (11 - len(row))
pad_row(row, expected_cols) == row \o [i \in 1..(expected_cols - Len(row)) |-> <<>>]

SheetsCols == 14
AppCols == 11

\* sheets.get_sheet_data: range A:N, expected_cols = 14
sheets_get_sheet_data(sheet) ==
    LET rows == values_get(sheet, SheetsCols)
    IN  [j \in 1..Len(rows) |-> pad_row(rows[j], SheetsCols)]

\* app.get_sheet_data: range A:K, 11 columns
app_get_sheet_data(sheet) ==
    LET rows == values_get(sheet, AppCols)
    IN  [j \in 1..Len(rows) |-> pad_row(rows[j], AppCols)]

NormalizeCalls == {[fn |-> "normalize_row", row |-> r] : r \in RawRows}
SheetDataCalls ==
    {[fn |-> f, sheet |-> sh] : f \in {"sheets.get_sheet_data", "app.get_sheet_data"},
                                sh \in SeqsUpTo(RawRows, MaxSheetLen)}

CallNormalizeRow ==
    /\ lib_call.fn = "normalize_row"
    /\ lib_ret = NotReturned
    /\ lib_ret' = Returned(normalize_row(lib_call.row))
    /\ UNCHANGED <<lib_call, genVars, spVars, repVars, syncVars>>

CallGetSheetData ==
    /\ lib_call.fn \in {"sheets.get_sheet_data", "app.get_sheet_data"}
    /\ lib_ret = NotReturned
    /\ lib_ret' = Returned(IF lib_call.fn = "sheets.get_sheet_data"
                           THEN sheets_get_sheet_data(lib_call.sheet)
                           ELSE app_get_sheet_data(lib_call.sheet))
    /\ UNCHANGED <<lib_call, genVars, spVars, repVars, syncVars>>

\* ---- get_unique_sites_and_dates (sheets.py 97-100, app.py 470-473)

\* the characters of the model in code point order
AsciiOrder == <<"\t", " ", "&", "-", ".", "/", "0", "1", "2", "3", "4", "5", "6", "7", "8", "9",
                ":", "A", "B", "D", "N", "S", "W", "_", "a", "b", "e", "i", "m", "t", "w", "x">>
ord(c) == CHOOSE i \in 1..Len(AsciiOrder) : AsciiOrder[i] = c

\* a < b for Python strings
RECURSIVE str_less(_, _)
str_less(a, b) ==
    IF b = <<>> THEN FALSE
    ELSE IF a = <<>> THEN TRUE
    ELSE IF Head(a) = Head(b) THEN str_less(Tail(a), Tail(b))
    ELSE ord(Head(a)) < ord(Head(b))

\* sorted(S) for a set S of strings
RECURSIVE sorted(_)
sorted(S) ==
    IF S = {} THEN <<>>
    ELSE LET least == CHOOSE x \in S : \A y \in S \ {x} : str_less(x, y)
         IN  <<least>> \o sorted(S \ {least})

\* a plausible slip: the filter strips but the collected value is the raw cell
get_unique_sites_and_dates_unstripped(rows) ==
    [sites |-> sorted({rows[j][2] : j \in {k \in 1..Len(rows) :
                                            Len(rows[k]) > 1 /\ strip(rows[k][2]) # <<>>}}),
     dates |-> sorted({rows[j][1] : j \in {k \in 1..Len(rows) :
                                            Len(rows[k]) > 0 /\ strip(rows[k][1]) # <<>>}})]

get_unique_sites_and_dates(rows) ==
    [sites |-> sorted({strip(rows[j][2]) : j \in {k \in 1..Len(rows) :
                                                   Len(rows[k]) > 1 /\ strip(rows[k][2]) # <<>>}}),
     dates |-> sorted({strip(rows[j][1]) : j \in {k \in 1..Len(rows) :
                                                   Len(rows[k]) > 0 /\ strip(rows[k][1]) # <<>>}})]

UniqueRowPool ==
    {<< >>,
     << <<"8">> >>,
     << <<"7">>, <<"A">> >>,
     << <<" ", "7">>, <<"A", " ">>, <<"x">> >>,
     << <<"7">>, <<"B">> >>,
     << <<"1", "0">>, <<"a">> >>,
     << <<" ">>, <<"\t", " ">> >>}
UniqueCalls ==
    {[fn |-> "get_unique_sites_and_dates", rows |-> rs] : rs \in SeqsUpTo(UniqueRowPool, MaxUniqueRows)}

CallGetUnique ==
    /\ lib_call.fn = "get_unique_sites_and_dates"
    /\ lib_ret = NotReturned
    /\ lib_ret' = Returned(get_unique_sites_and_dates(lib_call.rows))
    /\ UNCHANGED <<lib_call, genVars, spVars, repVars, syncVars>>

\* ---- resolve_asset (report.py 73-89, app.py 177-201)

\* A path below BASE_DIR: the directory relative to BASE_DIR ("." is BASE_DIR
\* itself) and the file name as its dot-separated components.
AssetPath(d, f) == [dir |-> d, file |-> f]
NoneValue == [t |-> "none"]
StrValue(path) == [t |-> "str", path |-> path]
EmptyString == [t |-> "str", path |-> AssetPath(".", <<>>)]

\* the directory tree: entries that exist, each a regular file or a directory
FsEntry(d, f, k) == [dir |-> d, file |-> f, kind |-> k]
FsUniverse ==
    {FsEntry(d, f, "file") : d \in {".", "signatures", "assets"},
                             f \in {<<"sig">>, <<"sig", "png">>, <<"sig", "jpg">>, <<"sig", "webp">>}}
    \cup {FsEntry(".", <<"signatures">>, "dir"), FsEntry("signatures", <<"sig">>, "dir")}
FsPool == {fs \in SUBSET FsUniverse : Cardinality(fs) <= MaxFiles}

\* Path.exists(): true of a file and of a directory
exists(fs, d, f) == \E e \in fs : e.dir = d /\ e.file = f

\* p.with_suffix("").name: the file name without its last suffix
stem_of(f) == IF Len(f) > 1 THEN SubSeq(f, 1, Len(f) - 1) ELSE f

exts == <<"", "png", "jpg", "jpeg", "webp">>

\* the candidates in the order the two loops visit them
candidates(path) ==
    LET stem == stem_of(path.file)
        search_dirs == IF path.dir # "." THEN <<path.dir>> ELSE <<"signatures", ".">>
    IN  [i \in 1..(Len(search_dirs) * Len(exts)) |->
            LET d == search_dirs[((i - 1) \div Len(exts)) + 1]
                ext == exts[((i - 1) % Len(exts)) + 1]
            IN  AssetPath(d, IF ext = "" THEN stem ELSE Append(stem, ext))]

resolve_asset(name, fs) ==
    IF name.t = "none" \/ name.path.file = <<>> THEN NoneValue
    ELSE LET cands == candidates(name.path)
             found == {i \in 1..Len(cands) : exists(fs, cands[i].dir, cands[i].file)}
         IN  IF found = {} THEN NoneValue
             ELSE StrValue(cands[CHOOSE i \in found : \A j \in found : i <= j])

AssetNames ==
    {NoneValue, EmptyString}
    \cup {StrValue(AssetPath(d, f)) : d \in {".", "signatures", "assets"},
                                      f \in {<<"sig">>, <<"sig", "jpg">>}}
    \cup {StrValue(AssetPath(".", <<"signatures">>))}
ResolveCalls == {[fn |-> "resolve_asset", name |-> n, fs |-> fs] : n \in AssetNames, fs \in FsPool}

CallResolveAsset ==
    /\ lib_call.fn = "resolve_asset"
    /\ lib_ret = NotReturned
    /\ lib_ret' = Returned(resolve_asset(lib_call.name, lib_call.fs))
    /\ UNCHANGED <<lib_call, genVars, spVars, repVars, syncVars>>

(***************************************************************************)
(* safe_filename (report.py 43-50, app.py 349-356).                        *)
(***************************************************************************)
\* the class [\\/:*?"<>|]
IllegalChars == {"\\", "/", ":", "*", "?", "\"", "<", ">", "|"}

RECURSIVE drop_run(_, _)
drop_run(s, class) ==
    IF s # <<>> /\ Head(s) \in class THEN drop_run(Tail(s), class) ELSE s

\* re.sub(class+, repl, s): every maximal run of class characters becomes repl
RECURSIVE re_sub_runs(_, _, _)
re_sub_runs(s, class, repl) ==
    IF s = <<>> THEN <<>>
    ELSE IF Head(s) \in class
         THEN <<repl>> \o re_sub_runs(drop_run(Tail(s), class), class, repl)
         ELSE <<Head(s)>> \o re_sub_runs(Tail(s), class, repl)

RECURSIVE rstrip_chars(_, _)
rstrip_chars(s, chars) ==
    IF s # <<>> /\ s[Len(s)] \in chars
    THEN rstrip_chars(SubSeq(s, 1, Len(s) - 1), chars) ELSE s

\* str.strip(chars)
strip_chars(s, chars) == rstrip_chars(drop_run(s, chars), chars)

\* s[:n] for n >= 0
slice_to(s, n) == SubSeq(s, 1, IF n < Len(s) THEN n ELSE Len(s))

safe_filename(s, max_len) ==
    LET s1 == re_sub_runs(s, IllegalChars, "-")
        s2 == strip_chars(re_sub_runs(s1, Whitespace, " "), {" ", ".", "-"})
    IN  slice_to(s2, max_len)

FilenameChars == {"a", " ", "\t", ".", "-", "/"}
FilenameCalls ==
    {[fn |-> "safe_filename", s |-> s, max_len |-> n] :
        s \in SeqsUpTo(FilenameChars, MaxNameLen), n \in 0..MaxLenArg}

CallSafeFilename ==
    /\ lib_call.fn = "safe_filename"
    /\ lib_ret = NotReturned
    /\ lib_ret' = Returned(safe_filename(lib_call.s, lib_call.max_len))
    /\ UNCHANGED <<lib_call, genVars, spVars, repVars, syncVars>>

(***************************************************************************)
(* format_date_title (report.py 63-70, app.py 340-346).                    *)
(* pd.to_datetime(d, dayfirst=True) on the strings explored here: three    *)
(* numeric fields with a four-digit year, separated by "/", "." or "-".    *)
(* A year-first string is read year, month, day; otherwise the first       *)
(* field is the day when that gives a date, else the month; anything else  *)
(* raises.                                                                 *)
(***************************************************************************)
DigitChars == <<"0", "1", "2", "3", "4", "5", "6", "7", "8", "9">>
Digits == {DigitChars[i] : i \in 1..Len(DigitChars)}
digit_value(c) == (CHOOSE i \in 1..Len(DigitChars) : DigitChars[i] = c) - 1

RECURSIVE atoi(_)
atoi(tok) ==
    IF tok = <<>> THEN 0
    ELSE atoi(SubSeq(tok, 1, Len(tok) - 1)) * Len(DigitChars) + digit_value(tok[Len(tok)])

\* "%02d" and "%04d"
RECURSIVE zero_pad(_, _)
zero_pad(n, width) ==
    IF width = 0 THEN <<>>
    ELSE zero_pad(n \div Len(DigitChars), width - 1) \o <<DigitChars[(n % Len(DigitChars)) + 1]>>

DateSeparators == {"/", ".", "-"}

\* the fields of s between separators
RECURSIVE split_date(_, _)
split_date(s, current) ==
    IF s = <<>> THEN <<current>>
    ELSE IF Head(s) \in DateSeparators
         THEN <<current>> \o split_date(Tail(s), <<>>)
         ELSE split_date(Tail(s), Append(current, Head(s)))

is_number(tok) == tok # <<>> /\ \A i \in 1..Len(tok) : tok[i] \in Digits

is_leap(y) == (y % 4 = 0 /\ y % 100 # 0) \/ y % 400 = 0
days_in_month(m, y) ==
    IF m = 2 THEN (IF is_leap(y) THEN 29 ELSE 28)
    ELSE IF m \in {4, 6, 9, 11} THEN 30 ELSE 31
is_date(d, m, y) == m \in 1..12 /\ d >= 1 /\ d <= days_in_month(m, y)

Timestamp(d, m, y) == [ok |-> TRUE, day |-> d, month |-> m, year |-> y]
ParseError == [ok |-> FALSE, day |-> 0, month |-> 0, year |-> 0]

\* a plausible slip: dayfirst left out, so the first field is the month when it can be
to_datetime_monthfirst(d) ==
    LET f == split_date(d, <<>>)
    IN  IF Len(f) # 3 \/ \E i \in 1..3 : ~is_number(f[i]) THEN ParseError
        ELSE IF Len(f[1]) = 4
             THEN IF is_date(atoi(f[3]), atoi(f[2]), atoi(f[1]))
                  THEN Timestamp(atoi(f[3]), atoi(f[2]), atoi(f[1])) ELSE ParseError
        ELSE IF Len(f[3]) # 4 THEN ParseError
        ELSE IF is_date(atoi(f[2]), atoi(f[1]), atoi(f[3]))
             THEN Timestamp(atoi(f[2]), atoi(f[1]), atoi(f[3]))
        ELSE IF is_date(atoi(f[1]), atoi(f[2]), atoi(f[3]))
             THEN Timestamp(atoi(f[1]), atoi(f[2]), atoi(f[3]))
        ELSE ParseError

\* pd.to_datetime(d, dayfirst=True, errors="raise")
to_datetime(d) ==
    LET f == split_date(d, <<>>)
    IN  IF Len(f) # 3 \/ \E i \in 1..3 : ~is_number(f[i]) THEN ParseError
        ELSE IF Len(f[1]) = 4
             THEN IF is_date(atoi(f[3]), atoi(f[2]), atoi(f[1]))
                  THEN Timestamp(atoi(f[3]), atoi(f[2]), atoi(f[1])) ELSE ParseError
        ELSE IF Len(f[3]) # 4 THEN ParseError
        ELSE IF is_date(atoi(f[1]), atoi(f[2]), atoi(f[3]))
             THEN Timestamp(atoi(f[1]), atoi(f[2]), atoi(f[3]))
        ELSE IF is_date(atoi(f[2]), atoi(f[1]), atoi(f[3]))
             THEN Timestamp(atoi(f[2]), atoi(f[1]), atoi(f[3]))
        ELSE ParseError

\* strftime("%d.%m.%Y")
strftime_title(ts) ==
    zero_pad(ts.day, 2) \o <<".">> \o zero_pad(ts.month, 2) \o <<".">> \o zero_pad(ts.year, 4)

\* str.replace(old, new) for one-character old and new
replace_char(s, old, new) == [i \in 1..Len(s) |-> IF s[i] = old THEN new ELSE s[i]]

format_date_title(d) ==
    LET ts == to_datetime(d)
    IN  IF ts.ok THEN strftime_title(ts)
        ELSE replace_char(replace_char(d, "/", "."), "-", ".")

\* the strings explored: every arrangement of a day, a month and a year,
\* dates that do not exist included, and strings that are no date
DayPool == {1, 6, 12, 13, 29, 31}
MonthPool == {1, 2, 8, 12, 13}
YearPool == {2024, 2025}
number_text(n, padded) ==
    IF padded \/ n >= Len(DigitChars) THEN zero_pad(n, 2) ELSE zero_pad(n, 1)
date_text(a, b, c, sep) == a \o <<sep>> \o b \o <<sep>> \o c
DateStrings ==
    UNION {
        { date_text(number_text(d, p), number_text(m, p), zero_pad(y, 4), sep),
          date_text(number_text(m, p), number_text(d, p), zero_pad(y, 4), sep),
          date_text(zero_pad(y, 4), number_text(m, p), number_text(d, p), sep) } :
        d \in DayPool, m \in MonthPool, y \in YearPool,
        sep \in DateSeparators, p \in BOOLEAN }
    \cup { <<"n", "/", "a">>, <<"0", "6", "/", "0", "8">>, <<"a", "-", "b", "-", "c">> }
DateCalls == {[fn |-> "format_date_title", d |-> s] : s \in DateStrings}

CallFormatDateTitle ==
    /\ lib_call.fn = "format_date_title"
    /\ lib_ret = NotReturned
    /\ lib_ret' = Returned(format_date_title(lib_call.d))
    /\ UNCHANGED <<lib_call, genVars, spVars, repVars, syncVars>>

(***************************************************************************)
(* _create_sanitized_template_copy on the parts of the template            *)
(* (report.py 92-111).  A part is a file name and its bytes; names and     *)
(* bytes are sequences of pieces, a piece being a run of ASCII bytes or    *)
(* one byte of a multi-byte sequence.                                      *)
(***************************************************************************)
\* PLACEHOLDER_REPLACEMENTS
PLACEHOLDER_REPLACEMENTS ==
    << [old |-> <<"Reaction", "&amp;", "WayForword">>,
        new |-> <<"Reaction", "_and_", "WayForword">>] >>

\* bytes.decode("utf-8"): 0xC3 0xA9 is one character, a lone 0xC3, 0xA9 or 0xFF is an error
RECURSIVE decodable(_)
decodable(data) ==
    IF data = <<>> THEN TRUE
    ELSE IF Head(data) = "xC3"
         THEN Len(data) >= 2 /\ data[2] = "xA9" /\ decodable(Tail(Tail(data)))
         ELSE Head(data) \notin {"xA9", "xFF"} /\ decodable(Tail(data))

RECURSIVE decode(_)
decode(data) ==
    IF data = <<>> THEN <<>>
    ELSE IF Head(data) = "xC3" THEN <<"e_acute">> \o decode(Tail(Tail(data)))
         ELSE <<Head(data)>> \o decode(Tail(data))

\* str.encode("utf-8")
RECURSIVE encode(_)
encode(text) ==
    IF text = <<>> THEN <<>>
    ELSE IF Head(text) = "e_acute" THEN <<"xC3", "xA9">> \o encode(Tail(text))
         ELSE <<Head(text)>> \o encode(Tail(text))

\* str.replace(old, new): non-overlapping occurrences, left to right
RECURSIVE replace(_, _, _)
replace(text, old, new) ==
    IF text = <<>> THEN <<>>
    ELSE IF IsPrefix(old, text)
         THEN new \o replace(SubSeq(text, Len(old) + 1, Len(text)), old, new)
         ELSE <<Head(text)>> \o replace(Tail(text), old, new)

\* for old, new in PLACEHOLDER_REPLACEMENTS.items(): text = text.replace(old, new)
RECURSIVE replace_placeholders(_, _)
replace_placeholders(text, replacements) ==
    IF replacements = <<>> THEN text
    ELSE replace_placeholders(replace(text, Head(replacements).old, Head(replacements).new),
                              Tail(replacements))

\* item.filename.endswith(".xml")
endswith_xml(filename) == IsSuffix(<<".xml">>, filename)

Part(filename, data) == [filename |-> filename, data |-> data]

\* a plausible slip: every part is rewritten, whatever its name
sanitize_part_any_name(item) ==
    IF PLACEHOLDER_REPLACEMENTS # <<>> /\ decodable(item.data)
    THEN Part(item.filename, encode(replace_placeholders(decode(item.data), PLACEHOLDER_REPLACEMENTS)))
    ELSE item

\* the body of the loop over src.infolist()
sanitize_part(item) ==
    IF endswith_xml(item.filename) /\ PLACEHOLDER_REPLACEMENTS # <<>> /\ decodable(item.data)
    THEN Part(item.filename, encode(replace_placeholders(decode(item.data), PLACEHOLDER_REPLACEMENTS)))
    ELSE item

\* the template is opened for reading and the copy written to a new file
write_sanitized_copy(parts) ==
    [template |-> parts, copy |-> [i \in 1..Len(parts) |-> sanitize_part(parts[i])]]

PartNames ==
    { <<"word/document", ".xml">>, <<"word/media/image1", ".png">>,
      <<"customXml/item1", ".xml", ".rels">> }
PartData ==
    { <<>>,
      <<"Reaction", "&amp;", "WayForword">>,
      <<"{{", "Reaction", "&amp;", "WayForword", "}}", "Reaction", "&amp;", "WayForword">>,
      <<"Reaction", "&amp;", "Reaction", "&amp;", "WayForword">>,
      <<"Reaction", "_and_", "WayForword", "&amp;", "WayForword">>,
      <<"xC3", "xA9", "Reaction", "&amp;", "WayForword">>,
      <<"xC3", "Reaction", "&amp;", "WayForword">>,
      <<"Reaction", "&amp;", "WayForword", "xFF">> }
\* a package has no two parts of the same name
Packages ==
    {p \in SeqsUpTo(PartNames \X PartData, MaxParts) :
        /\ p # <<>>
        /\ \A i, j \in 1..Len(p) : p[i][1] = p[j][1] => i = j}
SanitizeCalls ==
    {[fn |-> "create_sanitized_template_copy",
      template |-> [i \in 1..Len(p) |-> Part(p[i][1], p[i][2])]] : p \in Packages}

CallCreateSanitizedTemplateCopy ==
    /\ lib_call.fn = "create_sanitized_template_copy"
    /\ lib_ret = NotReturned
    /\ lib_ret' = Returned(write_sanitized_copy(lib_call.template))
    /\ UNCHANGED <<lib_call, genVars, spVars, repVars, syncVars>>

(***************************************************************************)
(* The context of one row: the body of the loop of generate_reports        *)
(* without the gallery (report.py 181-215 and 274-311).                    *)
(***************************************************************************)
\* report_structuring.REPORT_HEADERS
REPORT_HEADERS ==
    <<"Date", "Site_Name", "District", "Work", "Human_Resources", "Supply",
      "Work_Executed", "Comment_on_work", "Another_Work_Executed", "Comment_on_HSE",
      "Consultant_Recommandation", "Non_Compliant_work", "Reaction_and_WayForword",
      "challenges">>

\* SIGNATORIES: a text is a sequence of pieces, a file name its stem and suffix
SIGNATORIES ==
    [Civil |->
        [Consultant_Name |-> <<"IRANZI Prince Jean Claude">>,
         Consultant_Title |-> <<"Civil Engineer">>,
         Consultant_Signature |-> <<"iranzi_prince_jean_claude", "jpg">>,
         Contractor_Name |-> <<"Issac HABIMANA">>,
         Contractor_Title |-> <<"Electrical Engineer">>,
         Contractor_Signature |-> <<"issac_habimana", "jpg">>],
     Electrical |->
        [Consultant_Name |-> <<"Alexis IVUGIZA">>,
         Consultant_Title |-> <<"Electrical Engineer">>,
         Consultant_Signature |-> <<"alexis_ivugiza", "jpg">>,
         Contractor_Name |-> <<"Issac HABIMANA">>,
         Contractor_Title |-> <<"Electrical Engineer">>,
         Contractor_Signature |-> <<"issac_habimana", "jpg">>]]

EmptyDict == [k \in {} |-> <<>>]

\* SIGNATORIES.get(discipline, {})
signatories_get(discipline) ==
    IF discipline \in DOMAIN SIGNATORIES THEN SIGNATORIES[discipline] ELSE EmptyDict

\* sign_info.get(key, "")
get_text(sign_info, key) == IF key \in DOMAIN sign_info THEN sign_info[key] ELSE <<>>

\* sign_info.get(key): None when the key is absent
get_asset_name(sign_info, key) ==
    IF key \in DOMAIN sign_info THEN StrValue(AssetPath(".", sign_info[key])) ELSE NoneValue

PyText(s) == [t |-> "text", s |-> s]
InlineImage(path, width_mm) == [t |-> "InlineImage", path |-> path, width_mm |-> width_mm]

\* InlineImage(tpl, path, width=Mm(30)) if path else ""
signature_image(sig_path) ==
    IF sig_path = NoneValue THEN PyText(<<>>) ELSE InlineImage(sig_path.path, 30)

\* required - placeholders, reported through st.warning when not empty
required ==
    {"Consultant_Name", "Consultant_Title", "Consultant_Signature",
     "Contractor_Name", "Contractor_Title", "Contractor_Signature"}
placeholder_warnings(placeholders) ==
    LET missing == required \ placeholders
    IN  IF missing # {} THEN <<[kind |-> "missing_placeholders", missing |-> missing]>>
        ELSE <<>>

\* a plausible slip: two neighbouring fields of the dict literal exchanged
context_items_swapped(f, date_, site_name_, sign_info, cons_sig_img, cont_sig_img, subdoc) ==
    << <<"Date", PyText(date_)>>, <<"Site_Name", PyText(site_name_)>>,
       <<"District", PyText(f[3])>>, <<"Work", PyText(f[4])>>,
       <<"Human_Resources", PyText(f[5])>>, <<"Supply", PyText(f[6])>>,
       <<"Work_Executed", PyText(f[7])>>, <<"Comment_on_work", PyText(f[9])>>,
       <<"Another_Work_Executed", PyText(f[8])>>, <<"Comment_on_HSE", PyText(f[10])>>,
       <<"Consultant_Recommandation", PyText(f[11])>>,
       <<"Non_Compliant_work", PyText(f[12])>>,
       <<"Reaction_and_WayForword", PyText(f[13])>>, <<"challenges", PyText(f[14])>>,
       <<"Consultant_Name", PyText(get_text(sign_info, "Consultant_Name"))>>,
       <<"Consultant_Title", PyText(get_text(sign_info, "Consultant_Title"))>>,
       <<"Contractor_Name", PyText(get_text(sign_info, "Contractor_Name"))>>,
       <<"Contractor_Title", PyText(get_text(sign_info, "Contractor_Title"))>>,
       <<"Consultant_Signature", cons_sig_img>>,
       <<"Contractor_Signature", cont_sig_img>>,
       <<"Images", subdoc>>,
       <<"Reaction&WayForword", PyText(f[13])>> >>

\* the dict literal ctx = {...} followed by ctx["Reaction&WayForword"] = ...
context_items(f, date_, site_name_, sign_info, cons_sig_img, cont_sig_img, subdoc) ==
    << <<"Date", PyText(date_)>>, <<"Site_Name", PyText(site_name_)>>,
       <<"District", PyText(f[3])>>, <<"Work", PyText(f[4])>>,
       <<"Human_Resources", PyText(f[5])>>, <<"Supply", PyText(f[6])>>,
       <<"Work_Executed", PyText(f[7])>>, <<"Comment_on_work", PyText(f[8])>>,
       <<"Another_Work_Executed", PyText(f[9])>>, <<"Comment_on_HSE", PyText(f[10])>>,
       <<"Consultant_Recommandation", PyText(f[11])>>,
       <<"Non_Compliant_work", PyText(f[12])>>,
       <<"Reaction_and_WayForword", PyText(f[13])>>, <<"challenges", PyText(f[14])>>,
       <<"Consultant_Name", PyText(get_text(sign_info, "Consultant_Name"))>>,
       <<"Consultant_Title", PyText(get_text(sign_info, "Consultant_Title"))>>,
       <<"Contractor_Name", PyText(get_text(sign_info, "Contractor_Name"))>>,
       <<"Contractor_Title", PyText(get_text(sign_info, "Contractor_Title"))>>,
       <<"Consultant_Signature", cons_sig_img>>,
       <<"Contractor_Signature", cont_sig_img>>,
       <<"Images", subdoc>>,
       <<"Reaction&WayForword", PyText(f[13])>> >>

\* a dict built from items in order: a later item of the same key wins
dict_of(items) ==
    [k \in {items[i][1] : i \in 1..Len(items)} |->
        items[CHOOSE i \in 1..Len(items) :
                 /\ items[i][1] = k
                 /\ \A j \in 1..Len(items) : items[j][1] = k => j <= i][2]]

row_context(row, discipline, fs, placeholders, subdoc) ==
    LET f == normalize_row(row)
        sign_info == signatories_get(discipline)
        cons_sig_path == resolve_asset(get_asset_name(sign_info, "Consultant_Signature"), fs)
        cont_sig_path == resolve_asset(get_asset_name(sign_info, "Contractor_Signature"), fs)
    IN  [ctx |-> dict_of(context_items(f, strip(f[1]), strip(f[2]), sign_info,
                                       signature_image(cons_sig_path),
                                       signature_image(cont_sig_path), subdoc)),
         warnings |-> placeholder_warnings(placeholders)]

ContextRows ==
    {raw_row(n, "full") : n \in {0, 1, 14, MaxRawLen}}
    \cup {raw_row(14, "gaps"), RowSiteAPadded \o raw_row(11, "full")}
Disciplines == {"Civil", "Electrical", "Mechanical"}
SignatureFiles ==
    { {},
      {FsEntry("signatures", <<"issac_habimana", "jpg">>, "file")},
      {FsEntry("signatures", <<"issac_habimana", "jpg">>, "file"),
       FsEntry("signatures", <<"iranzi_prince_jean_claude", "jpg">>, "file")},
      {FsEntry(".", <<"alexis_ivugiza", "png">>, "file"),
       FsEntry("signatures", <<"issac_habimana", "jpg">>, "file")} }
PlaceholderSets == {required, required \ {"Consultant_Signature"}, {}}
Galleries == {[t |-> "subdoc", tables |-> n] : n \in 0..1}
ContextCalls ==
    {[fn |-> "row_context", row |-> r, discipline |-> d, fs |-> fs,
      placeholders |-> p, images_subdoc |-> g] :
        r \in ContextRows, d \in Disciplines, fs \in SignatureFiles,
        p \in PlaceholderSets, g \in Galleries}

CallRowContext ==
    /\ lib_call.fn = "row_context"
    /\ lib_ret = NotReturned
    /\ lib_ret' = Returned(row_context(lib_call.row, lib_call.discipline, lib_call.fs,
                                       lib_call.placeholders, lib_call.images_subdoc))
    /\ UNCHANGED <<lib_call, genVars, spVars, repVars, syncVars>>

(***************************************************************************)
(* The selection flow of the app (app.py 492-535): from the sheet to the   *)
(* site and date choices, the filtered rows and the uploader slots.        *)
(***************************************************************************)
\* the labels "All Sites" and "All Dates", each one piece
AllSites == <<"All Sites">>
AllDates == <<"All Dates">>

\* (a, b) < (c, d) for tuples of strings
pair_less(p, q) == str_less(p[1], q[1]) \/ (p[1] = q[1] /\ str_less(p[2], q[2]))

\* sorted(S) for a set S of pairs of strings
RECURSIVE sorted_pairs(_)
sorted_pairs(S) ==
    IF S = {} THEN <<>>
    ELSE LET least == CHOOSE x \in S : \A y \in S \ {x} : pair_less(x, y)
         IN  <<least>> \o sorted_pairs(S \ {least})

\* [row for row in rows if keep(row)]
RECURSIVE filter_rows(_, _, _)
filter_rows(rows, selected_sites, selected_dates) ==
    IF rows = <<>> THEN <<>>
    ELSE LET row == Head(rows)
             rest == filter_rows(Tail(rows), selected_sites, selected_dates)
         IN  IF strip(row[2]) \in selected_sites /\ strip(row[1]) \in selected_dates
             THEN <<row>> \o rest ELSE rest

\* st.multiselect: the options the user has picked; "All ..." or nothing
\* picked stands for every option
multiselect(choices, picked, all_label, everything) ==
    LET selected == picked \cap {choices[i] : i \in 1..Len(choices)}
    IN  IF all_label \in selected \/ selected = {} THEN everything ELSE selected

Stopped == [stopped |-> TRUE, site_choices |-> <<>>, date_choices |-> <<>>,
            filtered_rows |-> <<>>, site_date_pairs |-> <<>>]

app_flow(sheet, picked_sites, picked_dates) ==
    LET rows == app_get_sheet_data(sheet)
    IN  IF rows = <<>> THEN Stopped
        ELSE
        LET sites == get_unique_sites_and_dates(rows).sites
            all_sites == {sites[i] : i \in 1..Len(sites)}
            site_choices == <<AllSites>> \o sites
            selected_sites == multiselect(site_choices, picked_sites, AllSites, all_sites)
            site_dates == sorted({strip(rows[j][1]) :
                                    j \in {k \in 1..Len(rows) : strip(rows[k][2]) \in selected_sites}})
            date_choices == <<AllDates>> \o site_dates
            selected_dates == multiselect(date_choices, picked_dates, AllDates,
                                          {site_dates[i] : i \in 1..Len(site_dates)})
            filtered == filter_rows(rows, selected_sites, selected_dates)
        IN  [stopped |-> FALSE,
             site_choices |-> site_choices,
             date_choices |-> date_choices,
             filtered_rows |-> filtered,
             site_date_pairs |-> sorted_pairs({<<strip(filtered[i][2]), strip(filtered[i][1])>> :
                                                  i \in 1..Len(filtered)})]

HeaderDate == <<"D", "a", "t", "e">>
HeaderSite == <<"S", "i", "t", "e", "_", "N", "a", "m", "e">>
FlowRowPool ==
    { <<HeaderDate, HeaderSite, <<"D">>>>,
      << <<"7">>, <<"A">> >>,
      << <<"8">>, <<"B">>, <<"w">> >>,
      << <<" ", "7">>, <<"B", " ">> >> }
SitePicks == { {AllSites}, {}, {<<"A">>}, {<<"B">>, HeaderSite} }
DatePicks == { {AllDates}, {}, {<<"7">>}, {<<"8">>, HeaderDate} }
FlowCalls ==
    {[fn |-> "app_flow", sheet |-> s, picked_sites |-> ps, picked_dates |-> pd] :
        s \in SeqsUpTo(FlowRowPool, MaxFlowRows), ps \in SitePicks, pd \in DatePicks}

CallAppFlow ==
    /\ lib_call.fn = "app_flow"
    /\ lib_ret = NotReturned
    /\ lib_ret' = Returned(app_flow(lib_call.sheet, lib_call.picked_sites, lib_call.picked_dates))
    /\ UNCHANGED <<lib_call, genVars, spVars, repVars, syncVars>>

(***************************************************************************)
(* The offline cache (sheets.py 72-94, the same code in app.py 442-467).   *)
(* A JSON text is a sequence of tokens; json.dump writes it and json.load  *)
(* parses it back or raises.  Bytes are integers 0..255.                   *)
(***************************************************************************)
JStr(s) == [t |-> "str", v |-> s]
JList(items) == [t |-> "list", v |-> items]
\* a dict: its items, a pair of key and value each, in insertion order
JDict(items) == [t |-> "dict", v |-> items]
JNone == [t |-> "none", v |-> <<>>]

Punct(c) == [k |-> "punct", s |-> <<c>>]
StrToken(s) == [k |-> "str", s |-> s]

B64Alphabet ==
    <<"A", "B", "C", "D", "E", "F", "G", "H", "I", "J", "K", "L", "M", "N", "O", "P",
      "Q", "R", "S", "T", "U", "V", "W", "X", "Y", "Z", "a", "b", "c", "d", "e", "f",
      "g", "h", "i", "j", "k", "l", "m", "n", "o", "p", "q", "r", "s", "t", "u", "v",
      "w", "x", "y", "z", "0", "1", "2", "3", "4", "5", "6", "7", "8", "9", "+", "/">>

sextet(n) == B64Alphabet[(n % 64) + 1]

\* base64.b64encode(...).decode("utf-8")
RECURSIVE b64encode(_)
b64encode(bytes) ==
    IF bytes = <<>> THEN <<>>
    ELSE IF Len(bytes) = 1
    THEN LET n == bytes[1] * 16
         IN  <<sextet(n \div 64), sextet(n), "=", "=">>
    ELSE IF Len(bytes) = 2
    THEN LET n == (bytes[1] * 256 + bytes[2]) * 4
         IN  <<sextet(n \div 4096), sextet(n \div 64), sextet(n), "=">>
    ELSE LET n == (bytes[1] * 256 + bytes[2]) * 256 + bytes[3]
         IN  <<sextet(n \div 262144), sextet(n \div 4096), sextet(n \div 64), sextet(n)>>
             \o b64encode(SubSeq(bytes, 4, Len(bytes)))

\* json.dump
RECURSIVE json_dump(_)
RECURSIVE dump_items(_)
RECURSIVE dump_pairs(_)
json_dump(value) ==
    IF value.t = "str" THEN <<StrToken(value.v)>>
    ELSE IF value.t = "none" THEN <<Punct("null")>>
    ELSE IF value.t = "list" THEN <<Punct("[")>> \o dump_items(value.v) \o <<Punct("]")>>
    ELSE <<Punct("{")>> \o dump_pairs(value.v) \o <<Punct("}")>>
dump_items(items) ==
    IF items = <<>> THEN <<>>
    ELSE json_dump(Head(items))
         \o (IF Len(items) > 1 THEN <<Punct(",")>> ELSE <<>>) \o dump_items(Tail(items))
dump_pairs(items) ==
    IF items = <<>> THEN <<>>
    ELSE <<StrToken(Head(items)[1]), Punct(":")>> \o json_dump(Head(items)[2])
         \o (IF Len(items) > 1 THEN <<Punct(",")>> ELSE <<>>) \o dump_pairs(Tail(items))

\* json.load: the value and the position after it, or a failure
Parsed(value, next) == [ok |-> TRUE, v |-> value, next |-> next]
ParseFailure == [ok |-> FALSE, v |-> JNone, next |-> 0]
TokenIs(toks, i, c) == i <= Len(toks) /\ toks[i] = Punct(c)

\* d[key] = value on a dict in insertion order: a key already there keeps its place
dict_set(items, key, value) ==
    IF \E i \in 1..Len(items) : items[i][1] = key
    THEN [i \in 1..Len(items) |-> IF items[i][1] = key THEN <<key, value>> ELSE items[i]]
    ELSE Append(items, <<key, value>>)

RECURSIVE parse_value(_, _)
RECURSIVE parse_list_rest(_, _, _)
RECURSIVE parse_pairs_rest(_, _, _)
parse_value(toks, i) ==
    IF i > Len(toks) THEN ParseFailure
    ELSE IF toks[i].k = "str" THEN Parsed(JStr(toks[i].s), i + 1)
    ELSE IF toks[i] = Punct("null") THEN Parsed(JNone, i + 1)
    ELSE IF toks[i] = Punct("[")
         THEN IF TokenIs(toks, i + 1, "]") THEN Parsed(JList(<<>>), i + 2)
              ELSE parse_list_rest(toks, i + 1, <<>>)
    ELSE IF toks[i] = Punct("{")
         THEN IF TokenIs(toks, i + 1, "}") THEN Parsed(JDict(<<>>), i + 2)
              ELSE parse_pairs_rest(toks, i + 1, <<>>)
    ELSE ParseFailure
parse_list_rest(toks, i, acc) ==
    LET r == parse_value(toks, i)
    IN  IF ~r.ok THEN ParseFailure
        ELSE IF TokenIs(toks, r.next, ",") THEN parse_list_rest(toks, r.next + 1, Append(acc, r.v))
        ELSE IF TokenIs(toks, r.next, "]") THEN Parsed(JList(Append(acc, r.v)), r.next + 1)
        ELSE ParseFailure
parse_pairs_rest(toks, i, acc) ==
    IF ~(i + 1 <= Len(toks) /\ toks[i].k = "str" /\ toks[i + 1] = Punct(":")) THEN ParseFailure
    ELSE LET r == parse_value(toks, i + 2)
         IN  IF ~r.ok THEN ParseFailure
             ELSE IF TokenIs(toks, r.next, ",")
                  THEN parse_pairs_rest(toks, r.next + 1, dict_set(acc, toks[i].s, r.v))
             ELSE IF TokenIs(toks, r.next, "}")
                  THEN Parsed(JDict(dict_set(acc, toks[i].s, r.v)), r.next + 1)
             ELSE ParseFailure

json_load(toks) ==
    LET r == parse_value(toks, 1)
    IN  IF r.ok /\ r.next = Len(toks) + 1 THEN r ELSE ParseFailure

\* the cache file: absent, or present with the tokens written to it
MissingFile == NoFile
FileWith(toks) == [present |-> TRUE, tokens |-> toks]

\* a plausible slip: the key written as date|site
cache_key_swapped(site, d) == d \o <<"|">> \o site

\* f"{site}|{date}"
cache_key(site, d) == site \o <<"|">> \o d

\* an uploaded file
UploadedFile(name, bytes) == [name |-> name, bytes |-> bytes]

\* [{"name": f.name, "data": b64encode(f.getbuffer()).decode()} for f in (files or [])]
encoded_files(files) ==
    LET fs == IF files.t = "none" THEN <<>> ELSE files.v
    IN  JList([i \in 1..Len(fs) |->
                  JDict(<< <<<<"name">>, JStr(fs[i].name)>>,
                           <<<<"data">>, JStr(b64encode(fs[i].bytes))>> >>)])

\* the dict comprehension over uploads.items()
RECURSIVE encoded_uploads(_, _)
encoded_uploads(items, acc) ==
    IF items = <<>> THEN acc
    ELSE encoded_uploads(Tail(items),
                         dict_set(acc, cache_key(Head(items)[1][1], Head(items)[1][2]),
                                  encoded_files(Head(items)[2])))

\* save_offline_cache: the file it leaves
save_offline_cache(rows, uploads) ==
    LET data == JDict(<< <<<<"rows">>,
                           JList([i \in 1..Len(rows) |->
                                     JList([j \in 1..Len(rows[i]) |-> JStr(rows[i][j])])])>>,
                         <<<<"uploads">>, JDict(encoded_uploads(uploads, <<>>))>> >>)
    IN  FileWith(json_dump(data))

\* load_offline_cache
load_offline_cache(file) ==
    IF file.present
    THEN LET r == json_load(file.tokens) IN IF r.ok THEN r.v ELSE JNone
    ELSE JNone

UploadBytes == {<<>>, <<77>>, <<255, 0>>, <<0, 16, 131>>, <<137, 80, 78, 71>>}
UploadFilesPool ==
    {NoUploads, PyList(<<>>)}
    \cup {PyList(<<UploadedFile(<<"a">>, b)>>) : b \in UploadBytes}
    \cup {PyList(<<UploadedFile(<<"a">>, <<77>>), UploadedFile(<<"b">>, <<0, 16, 131>>)>>)}
UploadKeys == {<< <<"A">>, <<"7">> >>, << <<"B">>, <<"7">> >>}
\* uploads.items(): the keys of a dict are distinct
UploadItems ==
    {u \in SeqsUpTo(UploadKeys \X UploadFilesPool, MaxUploadKeys) :
        \A i, j \in 1..Len(u) : u[i][1] = u[j][1] => i = j}
\* a cache file cut short, one with a stray token, and an empty one
CorruptFiles ==
    LET good == save_offline_cache(<<RowSiteA>>, <<>>).tokens
    IN  {FileWith(SubSeq(good, 1, n)) : n \in 0..(Len(good) - 1)}
        \cup {FileWith(Append(good, Punct("}"))), FileWith(<<Punct(",")>>),
              FileWith(<<Punct("["), StrToken(<<"a">>), Punct(","), Punct("]")>>)}
CacheCalls ==
    {[fn |-> "save_and_load", rows |-> r, uploads |-> u] :
        r \in SeqsUpTo(RowPool, MaxRows), u \in UploadItems}
LoadCalls ==
    {[fn |-> "load_offline_cache", file |-> f] :
        f \in {MissingFile} \cup CorruptFiles
              \cup {save_offline_cache(<<RowSiteB>>, <<>>), FileWith(<<Punct("null")>>)}}

\* save_offline_cache(rows, uploads) followed by load_offline_cache()
CallSaveAndLoad ==
    /\ lib_call.fn = "save_and_load"
    /\ lib_ret = NotReturned
    /\ lib_ret' = Returned(load_offline_cache(save_offline_cache(lib_call.rows, lib_call.uploads)))
    /\ UNCHANGED <<lib_call, genVars, spVars, repVars, syncVars>>

CallLoadOfflineCache ==
    /\ lib_call.fn = "load_offline_cache"
    /\ lib_ret = NotReturned
    /\ lib_ret' = Returned(load_offline_cache(lib_call.file))
    /\ UNCHANGED <<lib_call, genVars, spVars, repVars, syncVars>>

(***************************************************************************)
(* From the uploader slots to the images of each report in the app         *)
(* (app.py 533-584 and 594-606).                                           *)
(***************************************************************************)
\* the loop over site_date_pairs: uploaded_image_mapping[(site_name, date)] = imgs
uploader_mapping(site_date_pairs, imgs) ==
    [key \in {site_date_pairs[i] : i \in 1..Len(site_date_pairs)} |-> imgs]

\* the block as written in app.py 596-606, which
\* unpacks (row + [""] * 11)[:11] and looks up (site_name, date) as unpacked
app_lookup_key(row) ==
    LET fields == SubSeq(row \o [i \in 1..AppCols |-> <<>>], 1, AppCols)
    IN  <<fields[2], fields[1]>>

\* the generate block for the rows selected: the key and the images of each row
app_generate(sheet, picked_sites, picked_dates, imgs) ==
    LET flow == app_flow(sheet, picked_sites, picked_dates)
        mapping == uploader_mapping(flow.site_date_pairs, imgs)
    IN  [mapping |-> mapping,
         rows |-> flow.filtered_rows,
         lookups |-> [i \in 1..Len(flow.filtered_rows) |->
                         LET key == app_lookup_key(flow.filtered_rows[i])
                         IN  [key |-> key,
                              image_files |-> images_for(mapping, key[1], key[2])]]]

UploaderResults == {PyList(<<"png">>), PyList(<<"png", "png">>), NoUploads}
GenerateCalls ==
    {[fn |-> "app_generate", sheet |-> s, picked_sites |-> ps, picked_dates |-> {AllDates},
      imgs |-> u] :
        s \in SeqsUpTo(FlowRowPool, MaxFlowRows), ps \in {{AllSites}, {<<"B">>}},
        u \in UploaderResults}

CallAppGenerate ==
    /\ lib_call.fn = "app_generate"
    /\ lib_ret = NotReturned
    /\ lib_ret' = Returned(app_generate(lib_call.sheet, lib_call.picked_sites,
                                        lib_call.picked_dates, lib_call.imgs))
    /\ UNCHANGED <<lib_call, genVars, spVars, repVars, syncVars>>

(***************************************************************************)
(* Local structuring of pasted contractor text (report_structuring.py).    *)
(***************************************************************************)
\* REPORT_HEADERS, each name spelled character by character
HEADER_NAMES ==
    << <<"D", "a", "t", "e">>,
       <<"S", "i", "t", "e", "_", "N", "a", "m", "e">>,
       <<"D", "i", "s", "t", "r", "i", "c", "t">>,
       <<"W", "o", "r", "k">>,
       <<"H", "u", "m", "a", "n", "_", "R", "e", "s", "o", "u", "r", "c", "e", "s">>,
       <<"S", "u", "p", "p", "l", "y">>,
       <<"W", "o", "r", "k", "_", "E", "x", "e", "c", "u", "t", "e", "d">>,
       <<"C", "o", "m", "m", "e", "n", "t", "_", "o", "n", "_", "w", "o", "r", "k">>,
       <<"A", "n", "o", "t", "h", "e", "r", "_", "W", "o", "r", "k", "_", "E", "x", "e", "c", "u", "t", "e", "d">>,
       <<"C", "o", "m", "m", "e", "n", "t", "_", "o", "n", "_", "H", "S", "E">>,
       <<"C", "o", "n", "s", "u", "l", "t", "a", "n", "t", "_", "R", "e", "c", "o", "m", "m", "a", "n", "d", "a", "t", "i", "o", "n">>,
       <<"N", "o", "n", "_", "C", "o", "m", "p", "l", "i", "a", "n", "t", "_", "w", "o", "r", "k">>,
       <<"R", "e", "a", "c", "t", "i", "o", "n", "_", "a", "n", "d", "_", "W", "a", "y", "F", "o", "r", "w", "o", "r", "d">>,
       <<"c", "h", "a", "l", "l", "e", "n", "g", "e", "s">> >>

UpperCase == <<"A", "B", "C", "D", "E", "F", "G", "H", "I", "J", "K", "L", "M", "N", "O", "P", "Q", "R", "S", "T", "U", "V", "W", "X", "Y", "Z">>
LowerCase == <<"a", "b", "c", "d", "e", "f", "g", "h", "i", "j", "k", "l", "m", "n", "o", "p", "q", "r", "s", "t", "u", "v", "w", "x", "y", "z">>

\* str.lower() on the ASCII characters explored here
lower_char(c) ==
    IF \E i \in 1..Len(UpperCase) : UpperCase[i] = c
    THEN LowerCase[CHOOSE i \in 1..Len(UpperCase) : UpperCase[i] = c]
    ELSE c
lower(s) == [i \in 1..Len(s) |-> lower_char(s[i])]

\* the class [a-z0-9]
LowerAlnum == {LowerCase[i] : i \in 1..Len(LowerCase)} \cup Digits

RECURSIVE drop_run_not(_, _)
drop_run_not(s, keep) ==
    IF s # <<>> /\ Head(s) \notin keep THEN drop_run_not(Tail(s), keep) ELSE s

\* re.sub([^keep]+, repl, s)
RECURSIVE re_sub_runs_not(_, _, _)
re_sub_runs_not(s, keep, repl) ==
    IF s = <<>> THEN <<>>
    ELSE IF Head(s) \notin keep
         THEN <<repl>> \o re_sub_runs_not(drop_run_not(Tail(s), keep), keep, repl)
         ELSE <<Head(s)>> \o re_sub_runs_not(Tail(s), keep, repl)

\* re.sub(r"[^a-z0-9]+", "_", key.lower()).strip("_")
normalise_key(key) == strip_chars(re_sub_runs_not(lower(key), LowerAlnum, "_"), {"_"})

\* a plausible slip: one alias names the header in its usual spelling
HeaderAliasUpdates_respelt ==
    << <<<<"s", "i", "t", "e", "_", "n", "a", "m", "e">>, <<"S", "i", "t", "e", "_", "N", "a", "m", "e">>>>,
       <<<<"s", "i", "t", "e">>, <<"S", "i", "t", "e", "_", "N", "a", "m", "e">>>>,
       <<<<"s", "i", "t", "e", "_", "n", "a", "m", "e", "s">>, <<"S", "i", "t", "e", "_", "N", "a", "m", "e">>>>,
       <<<<"c", "o", "m", "m", "e", "n", "t", "_", "o", "n", "_", "w", "o", "r", "k">>, <<"C", "o", "m", "m", "e", "n", "t", "_", "o", "n", "_", "w", "o", "r", "k">>>>,
       <<<<"c", "o", "m", "m", "e", "n", "t", "s", "_", "o", "n", "_", "w", "o", "r", "k">>, <<"C", "o", "m", "m", "e", "n", "t", "_", "o", "n", "_", "w", "o", "r", "k">>>>,
       <<<<"c", "o", "m", "m", "e", "n", "t", "_", "o", "n", "_", "h", "s", "e">>, <<"C", "o", "m", "m", "e", "n", "t", "_", "o", "n", "_", "H", "S", "E">>>>,
       <<<<"c", "o", "m", "m", "e", "n", "t", "s", "_", "o", "n", "_", "h", "s", "e">>, <<"C", "o", "m", "m", "e", "n", "t", "_", "o", "n", "_", "H", "S", "E">>>>,
       <<<<"r", "e", "c", "o", "m", "m", "e", "n", "d", "a", "t", "i", "o", "n">>, <<"C", "o", "n", "s", "u", "l", "t", "a", "n", "t", "_", "R", "e", "c", "o", "m", "m", "e", "n", "d", "a", "t", "i", "o", "n">>>>,
       <<<<"r", "e", "c", "o", "m", "m", "e", "n", "d", "a", "t", "i", "o", "n", "s">>, <<"C", "o", "n", "s", "u", "l", "t", "a", "n", "t", "_", "R", "e", "c", "o", "m", "m", "a", "n", "d", "a", "t", "i", "o", "n">>>>,
       <<<<"c", "o", "n", "s", "u", "l", "t", "a", "n", "t", "_", "r", "e", "c", "o", "m", "m", "e", "n", "d", "a", "t", "i", "o", "n">>, <<"C", "o", "n", "s", "u", "l", "t", "a", "n", "t", "_", "R", "e", "c", "o", "m", "m", "a", "n", "d", "a", "t", "i", "o", "n">>>>,
       <<<<"c", "o", "n", "s", "u", "l", "t", "a", "n", "t", "_", "r", "e", "c", "o", "m", "m", "e", "n", "d", "a", "t", "i", "o", "n", "s">>, <<"C", "o", "n", "s", "u", "l", "t", "a", "n", "t", "_", "R", "e", "c", "o", "m", "m", "a", "n", "d", "a", "t", "i", "o", "n">>>>,
       <<<<"w", "o", "r", "k", "_", "e", "x", "e", "c", "u", "t", "e", "d">>, <<"W", "o", "r", "k", "_", "E", "x", "e", "c", "u", "t", "e", "d">>>>,
       <<<<"a", "n", "o", "t", "h", "e", "r", "_", "w", "o", "r", "k", "_", "e", "x", "e", "c", "u", "t", "e", "d">>, <<"A", "n", "o", "t", "h", "e", "r", "_", "W", "o", "r", "k", "_", "E", "x", "e", "c", "u", "t", "e", "d">>>>,
       <<<<"n", "o", "n", "_", "c", "o", "m", "p", "l", "i", "a", "n", "t", "_", "w", "o", "r", "k">>, <<"N", "o", "n", "_", "C", "o", "m", "p", "l", "i", "a", "n", "t", "_", "w", "o", "r", "k">>>>,
       <<<<"n", "o", "n", "_", "c", "o", "m", "p", "l", "i", "a", "n", "c", "e", "_", "w", "o", "r", "k">>, <<"N", "o", "n", "_", "C", "o", "m", "p", "l", "i", "a", "n", "t", "_", "w", "o", "r", "k">>>>,
       <<<<"r", "e", "a", "c", "t", "i", "o", "n", "_", "w", "a", "y", "_", "f", "o", "r", "w", "o", "r", "d">>, <<"R", "e", "a", "c", "t", "i", "o", "n", "_", "a", "n", "d", "_", "W", "a", "y", "F", "o", "r", "w", "o", "r", "d">>>>,
       <<<<"r", "e", "a", "c", "t", "i", "o", "n", "_", "w", "a", "y", "_", "f", "o", "r", "w", "a", "r", "d">>, <<"R", "e", "a", "c", "t", "i", "o", "n", "_", "a", "n", "d", "_", "W", "a", "y", "F", "o", "r", "w", "o", "r", "d">>>>,
       <<<<"r", "e", "a", "c", "t", "i", "o", "n", "_", "a", "n", "d", "_", "w", "a", "y", "_", "f", "o", "r", "w", "a", "r", "d">>, <<"R", "e", "a", "c", "t", "i", "o", "n", "_", "a", "n", "d", "_", "W", "a", "y", "F", "o", "r", "w", "o", "r", "d">>>>,
       <<<<"r", "e", "a", "c", "t", "i", "o", "n", "_", "a", "n", "d", "_", "w", "a", "y", "f", "o", "r", "w", "o", "r", "d">>, <<"R", "e", "a", "c", "t", "i", "o", "n", "_", "a", "n", "d", "_", "W", "a", "y", "F", "o", "r", "w", "o", "r", "d">>>>,
       <<<<"r", "e", "a", "c", "t", "i", "o", "n", "_", "w", "a", "y", "f", "o", "r", "w", "a", "r", "d">>, <<"R", "e", "a", "c", "t", "i", "o", "n", "_", "a", "n", "d", "_", "W", "a", "y", "F", "o", "r", "w", "o", "r", "d">>>>,
       <<<<"r", "e", "a", "c", "t", "i", "o", "n", "_", "w", "a", "y", "f", "o", "r", "w", "o", "r", "d">>, <<"R", "e", "a", "c", "t", "i", "o", "n", "_", "a", "n", "d", "_", "W", "a", "y", "F", "o", "r", "w", "o", "r", "d">>>>,
       <<<<"c", "h", "a", "l", "l", "e", "n", "g", "e">>, <<"c", "h", "a", "l", "l", "e", "n", "g", "e", "s">>>>,
       <<<<"c", "h", "a", "l", "l", "e", "n", "g", "e", "s">>, <<"c", "h", "a", "l", "l", "e", "n", "g", "e", "s">>>> >>

\* the pairs given to _HEADER_ALIASES.update(...)
HeaderAliasUpdates ==
    << <<<<"s", "i", "t", "e", "_", "n", "a", "m", "e">>, <<"S", "i", "t", "e", "_", "N", "a", "m", "e">>>>,
       <<<<"s", "i", "t", "e">>, <<"S", "i", "t", "e", "_", "N", "a", "m", "e">>>>,
       <<<<"s", "i", "t", "e", "_", "n", "a", "m", "e", "s">>, <<"S", "i", "t", "e", "_", "N", "a", "m", "e">>>>,
       <<<<"c", "o", "m", "m", "e", "n", "t", "_", "o", "n", "_", "w", "o", "r", "k">>, <<"C", "o", "m", "m", "e", "n", "t", "_", "o", "n", "_", "w", "o", "r", "k">>>>,
       <<<<"c", "o", "m", "m", "e", "n", "t", "s", "_", "o", "n", "_", "w", "o", "r", "k">>, <<"C", "o", "m", "m", "e", "n", "t", "_", "o", "n", "_", "w", "o", "r", "k">>>>,
       <<<<"c", "o", "m", "m", "e", "n", "t", "_", "o", "n", "_", "h", "s", "e">>, <<"C", "o", "m", "m", "e", "n", "t", "_", "o", "n", "_", "H", "S", "E">>>>,
       <<<<"c", "o", "m", "m", "e", "n", "t", "s", "_", "o", "n", "_", "h", "s", "e">>, <<"C", "o", "m", "m", "e", "n", "t", "_", "o", "n", "_", "H", "S", "E">>>>,
       <<<<"r", "e", "c", "o", "m", "m", "e", "n", "d", "a", "t", "i", "o", "n">>, <<"C", "o", "n", "s", "u", "l", "t", "a", "n", "t", "_", "R", "e", "c", "o", "m", "m", "a", "n", "d", "a", "t", "i", "o", "n">>>>,
       <<<<"r", "e", "c", "o", "m", "m", "e", "n", "d", "a", "t", "i", "o", "n", "s">>, <<"C", "o", "n", "s", "u", "l", "t", "a", "n", "t", "_", "R", "e", "c", "o", "m", "m", "a", "n", "d", "a", "t", "i", "o", "n">>>>,
       <<<<"c", "o", "n", "s", "u", "l", "t", "a", "n", "t", "_", "r", "e", "c", "o", "m", "m", "e", "n", "d", "a", "t", "i", "o", "n">>, <<"C", "o", "n", "s", "u", "l", "t", "a", "n", "t", "_", "R", "e", "c", "o", "m", "m", "a", "n", "d", "a", "t", "i", "o", "n">>>>,
       <<<<"c", "o", "n", "s", "u", "l", "t", "a", "n", "t", "_", "r", "e", "c", "o", "m", "m", "e", "n", "d", "a", "t", "i", "o", "n", "s">>, <<"C", "o", "n", "s", "u", "l", "t", "a", "n", "t", "_", "R", "e", "c", "o", "m", "m", "a", "n", "d", "a", "t", "i", "o", "n">>>>,
       <<<<"w", "o", "r", "k", "_", "e", "x", "e", "c", "u", "t", "e", "d">>, <<"W", "o", "r", "k", "_", "E", "x", "e", "c", "u", "t", "e", "d">>>>,
       <<<<"a", "n", "o", "t", "h", "e", "r", "_", "w", "o", "r", "k", "_", "e", "x", "e", "c", "u", "t", "e", "d">>, <<"A", "n", "o", "t", "h", "e", "r", "_", "W", "o", "r", "k", "_", "E", "x", "e", "c", "u", "t", "e", "d">>>>,
       <<<<"n", "o", "n", "_", "c", "o", "m", "p", "l", "i", "a", "n", "t", "_", "w", "o", "r", "k">>, <<"N", "o", "n", "_", "C", "o", "m", "p", "l", "i", "a", "n", "t", "_", "w", "o", "r", "k">>>>,
       <<<<"n", "o", "n", "_", "c", "o", "m", "p", "l", "i", "a", "n", "c", "e", "_", "w", "o", "r", "k">>, <<"N", "o", "n", "_", "C", "o", "m", "p", "l", "i", "a", "n", "t", "_", "w", "o", "r", "k">>>>,
       <<<<"r", "e", "a", "c", "t", "i", "o", "n", "_", "w", "a", "y", "_", "f", "o", "r", "w", "o", "r", "d">>, <<"R", "e", "a", "c", "t", "i", "o", "n", "_", "a", "n", "d", "_", "W", "a", "y", "F", "o", "r", "w", "o", "r", "d">>>>,
       <<<<"r", "e", "a", "c", "t", "i", "o", "n", "_", "w", "a", "y", "_", "f", "o", "r", "w", "a", "r", "d">>, <<"R", "e", "a", "c", "t", "i", "o", "n", "_", "a", "n", "d", "_", "W", "a", "y", "F", "o", "r", "w", "o", "r", "d">>>>,
       <<<<"r", "e", "a", "c", "t", "i", "o", "n", "_", "a", "n", "d", "_", "w", "a", "y", "_", "f", "o", "r", "w", "a", "r", "d">>, <<"R", "e", "a", "c", "t", "i", "o", "n", "_", "a", "n", "d", "_", "W", "a", "y", "F", "o", "r", "w", "o", "r", "d">>>>,
       <<<<"r", "e", "a", "c", "t", "i", "o", "n", "_", "a", "n", "d", "_", "w", "a", "y", "f", "o", "r", "w", "o", "r", "d">>, <<"R", "e", "a", "c", "t", "i", "o", "n", "_", "a", "n", "d", "_", "W", "a", "y", "F", "o", "r", "w", "o", "r", "d">>>>,
       <<<<"r", "e", "a", "c", "t", "i", "o", "n", "_", "w", "a", "y", "f", "o", "r", "w", "a", "r", "d">>, <<"R", "e", "a", "c", "t", "i", "o", "n", "_", "a", "n", "d", "_", "W", "a", "y", "F", "o", "r", "w", "o", "r", "d">>>>,
       <<<<"r", "e", "a", "c", "t", "i", "o", "n", "_", "w", "a", "y", "f", "o", "r", "w", "o", "r", "d">>, <<"R", "e", "a", "c", "t", "i", "o", "n", "_", "a", "n", "d", "_", "W", "a", "y", "F", "o", "r", "w", "o", "r", "d">>>>,
       <<<<"c", "h", "a", "l", "l", "e", "n", "g", "e">>, <<"c", "h", "a", "l", "l", "e", "n", "g", "e", "s">>>>,
       <<<<"c", "h", "a", "l", "l", "e", "n", "g", "e", "s">>, <<"c", "h", "a", "l", "l", "e", "n", "g", "e", "s">>>> >>

RECURSIVE dict_update(_, _)
dict_update(items, pairs) ==
    IF pairs = <<>> THEN items
    ELSE dict_update(dict_set(items, Head(pairs)[1], Head(pairs)[2]), Tail(pairs))

\* _HEADER_ALIASES: the normalised canonical names, then the update
HEADER_ALIASES ==
    dict_update([i \in 1..Len(HEADER_NAMES) |-> <<normalise_key(HEADER_NAMES[i]), HEADER_NAMES[i]>>],
                HeaderAliasUpdates)

dict_has(items, key) == \E i \in 1..Len(items) : items[i][1] = key
dict_item(items, key) == items[CHOOSE i \in 1..Len(items) : items[i][1] = key][2]

\* _resolve_header: the canonical header, or None
resolve_header(raw_key) ==
    LET normalised_key == normalise_key(raw_key)
    IN  IF normalised_key = <<>> THEN PyNone
        ELSE IF dict_has(HEADER_ALIASES, normalised_key)
             THEN PyText(dict_item(HEADER_ALIASES, normalised_key))
             ELSE PyNone

\* \s, and the characters str.strip() removes, among those explored here
TextSpace == {" ", "\t", "\n"}

\* the class [A-Za-z0-9_\-/ ]
KeyChars ==
    {UpperCase[i] : i \in 1..Len(UpperCase)} \cup LowerAlnum \cup {"_", "-", "/", " "}

\* the first index from i on that is past the run of class characters at i
skip_run(s, i, class) ==
    CHOOSE j \in i..(Len(s) + 1) :
        /\ \A m \in i..(j - 1) : s[m] \in class
        /\ j = Len(s) + 1 \/ s[j] \notin class

NoMatch == [matched |-> FALSE]

\* _KEY_VALUE_PATTERN.match(line): the key is the shortest prefix of key
\* characters that is followed, after optional whitespace, by ":" or "-"
key_value_match(line) ==
    LET b == skip_run(line, 1, TextSpace)
        ends == {k \in b..Len(line) :
                    /\ \A m \in b..k : line[m] \in KeyChars
                    /\ LET j == skip_run(line, k + 1, TextSpace)
                       IN  j <= Len(line) /\ line[j] \in {":", "-"}}
    IN  IF ends = {} THEN NoMatch
        ELSE LET k == CHOOSE e \in ends : \A o \in ends : e <= o
                 j == skip_run(line, k + 1, TextSpace)
                 v == skip_run(line, j + 1, TextSpace)
             IN  [matched |-> TRUE, key |-> SubSeq(line, b, k), value |-> SubSeq(line, v, Len(line))]

text_strip(s) == strip_chars(s, TextSpace)

\* _append_value
append_value(current, addition) ==
    LET stripped == text_strip(addition)
    IN  IF stripped = <<>> THEN current
        ELSE IF current = <<>> THEN stripped
        ELSE current \o <<"\n">> \o stripped

\* str.splitlines() on text whose only line boundary is "\n"
RECURSIVE splitlines(_)
splitlines(s) ==
    IF s = <<>> THEN <<>>
    ELSE LET nl == {i \in 1..Len(s) : s[i] = "\n"}
         IN  IF nl = {} THEN <<s>>
             ELSE LET i == CHOOSE e \in nl : \A o \in nl : e <= o
                  IN  <<SubSeq(s, 1, i - 1)>> \o splitlines(SubSeq(s, i + 1, Len(s)))

Comment_on_work == <<"C", "o", "m", "m", "e", "n", "t", "_", "o", "n", "_", "w", "o", "r", "k">>

\* one turn of the loop of _parse_section
parse_line(state, raw_line) ==
    LET line == text_strip(raw_line)
        match == key_value_match(line)
    IN  IF line = <<>> THEN state
        ELSE IF match.matched
             THEN LET resolved == resolve_header(match.key)
                      header == IF resolved.t = "none" THEN Comment_on_work ELSE resolved.s
                  IN  [result |-> dict_set(state.result, header,
                                           append_value(dict_item(state.result, header),
                                                        text_strip(match.value))),
                       current_header |-> PyText(header)]
             ELSE LET header == IF state.current_header.t = "none"
                                THEN Comment_on_work ELSE state.current_header.s
                  IN  [result |-> dict_set(state.result, header,
                                           append_value(dict_item(state.result, header), line)),
                       current_header |-> state.current_header]

RECURSIVE parse_lines(_, _)
parse_lines(state, lines) ==
    IF lines = <<>> THEN state ELSE parse_lines(parse_line(state, Head(lines)), Tail(lines))

\* _parse_section
parse_section(section) ==
    parse_lines([result |-> [i \in 1..Len(HEADER_NAMES) |-> <<HEADER_NAMES[i], <<>> >>],
                 current_header |-> PyNone],
                splitlines(section)).result

\* the fewest dashes of a separator line: -{3,}
MinDashes == 3

\* where a match of _SECTION_SPLIT_PATTERN that starts at i ends, 0 when none does
separator_end(s, i) ==
    IF s[i] # "\n" THEN 0
    ELSE LET j == skip_run(s, i + 1, TextSpace)
             d == skip_run(s, j, {"-"})
             e == skip_run(s, d, TextSpace)
             newlines == {m \in d..(e - 1) : s[m] = "\n"}
         IN  IF d - j >= MinDashes /\ newlines # {}
             THEN CHOOSE m \in newlines : \A o \in newlines : m >= o
             ELSE 0

\* _SECTION_SPLIT_PATTERN.split(s)
RECURSIVE re_split(_)
re_split(s) ==
    LET starts == {i \in 1..Len(s) : separator_end(s, i) # 0}
    IN  IF starts = {} THEN <<s>>
        ELSE LET i == CHOOSE e \in starts : \A o \in starts : e <= o
             IN  <<SubSeq(s, 1, i - 1)>> \o re_split(SubSeq(s, separator_end(s, i) + 1, Len(s)))

\* _split_into_sections
split_into_sections(raw_report_text) ==
    LET stripped == text_strip(raw_report_text)
        sections == re_split(stripped)
    IN  IF stripped = <<>> THEN <<>>
        ELSE SelectSeq([i \in 1..Len(sections) |-> text_strip(sections[i])], LAMBDA x : x # <<>>)

Raises(error) == [t |-> "raise", exc |-> error]

clean_and_structure_report(raw_report_text) ==
    IF raw_report_text.t # "text" THEN Raises("TypeError")
    ELSE LET sections == split_into_sections(raw_report_text.s)
             parsed_rows == [i \in 1..Len(sections) |-> PyDict(parse_section(sections[i]))]
         IN  IF sections = <<>> THEN Raises("ValueError")
             ELSE IF Len(parsed_rows) = 1 THEN parsed_rows[1]
             ELSE PyList(parsed_rows)

\* pasted text: lines joined by "\n"
TextLines ==
    { <<"W", "o", "r", "k", ":", " ", "D", "i", "g">>,
      <<"S", "I", "T", "E", " ", "N", "A", "M", "E", " ", "-", " ", "K">>,
      <<"N", "o", "t", "e", ":", " ", "c">>,
      <<"a", "-", "b">>,
      <<"m", "o", "r", "e">>,
      <<"-", "-", "-">>,
      <<>>,
      <<"C", "h", "a", "l", "l", "e", "n", "g", "e", ":">> }

RECURSIVE join_lines(_)
join_lines(lines) ==
    IF lines = <<>> THEN <<>>
    ELSE IF Len(lines) = 1 THEN lines[1]
    ELSE Head(lines) \o <<"\n">> \o join_lines(Tail(lines))

RawTexts == {join_lines(lines) : lines \in SeqsUpTo(TextLines, MaxTextLines)}

StructureCalls ==
    {[fn |-> "clean_and_structure_report", raw_report_text |-> t] :
        t \in {PyNone} \cup {PyText(s) : s \in RawTexts}}

CallCleanAndStructureReport ==
    /\ lib_call.fn = "clean_and_structure_report"
    /\ lib_ret = NotReturned
    /\ lib_ret' = Returned(clean_and_structure_report(lib_call.raw_report_text))
    /\ UNCHANGED <<lib_call, genVars, spVars, repVars, syncVars>>

\* the sections _split_into_sections hands to _parse_section: stripped, not empty
ParseCalls ==
    {[fn |-> "parse_section", section |-> text_strip(s)] : s \in {t \in RawTexts : text_strip(t) # <<>>}}

CallParseSection ==
    /\ lib_call.fn = "parse_section"
    /\ lib_ret = NotReturned
    /\ lib_ret' = Returned(parse_section(lib_call.section))
    /\ UNCHANGED <<lib_call, genVars, spVars, repVars, syncVars>>

\* keys given to resolve_report_header_name: canonical headers, alias keys and
\* other words, spelled with different separators
RECURSIVE respell(_, _)
respell(key, sep) ==
    IF key = <<>> THEN <<>>
    ELSE IF Head(key) = "_" THEN sep \o respell(drop_run(Tail(key), {"_"}), sep)
    ELSE <<Head(key)>> \o respell(Tail(key), sep)

KeySeparators == {<<"_">>, <<" ">>, <<"-">>, <<"/">>, <<" ", "-", " ">>, <<":">>}
OtherKeys == { <<"n", "o", "t", "e">>, <<>>, <<"_">>, <<"s", "i", "t", "e", "n", "a", "m", "e">>, <<"w", "o", "r", "k", "s">>, <<"s", "i", "t", "e", "_", "n", "a", "m", "e", "_", "x">> }
BaseKeys ==
    {HEADER_NAMES[i] : i \in 1..Len(HEADER_NAMES)}
        \cup {HeaderAliasUpdates[i][1] : i \in 1..Len(HeaderAliasUpdates)}
        \cup OtherKeys

ResolveHeaderCalls ==
    {[fn |-> "resolve_report_header_name", raw_key |-> respell(k, sep)] : k \in BaseKeys, sep \in KeySeparators}

\* resolve_report_header_name
CallResolveReportHeaderName ==
    /\ lib_call.fn = "resolve_report_header_name"
    /\ lib_ret = NotReturned
    /\ lib_ret' = Returned(resolve_header(lib_call.raw_key))
    /\ UNCHANGED <<lib_call, genVars, spVars, repVars, syncVars>>

\*-- LIB SPEC BEGIN
InitLib ==
    /\ GenIdle
    /\ SpIdle
    /\ RepIdle
    /\ SyncIdle
    /\ lib_ret = NotReturned
    /\ \/ lib_call \in NormalizeCalls
       \/ lib_call \in SheetDataCalls
       \/ lib_call \in UniqueCalls
       \/ lib_call \in ResolveCalls
       \/ lib_call \in FilenameCalls
       \/ lib_call \in DateCalls
       \/ lib_call \in SanitizeCalls
       \/ lib_call \in ContextCalls
       \/ lib_call \in FlowCalls
       \/ lib_call \in CacheCalls
       \/ lib_call \in LoadCalls
       \/ lib_call \in GenerateCalls
       \/ lib_call \in StructureCalls
       \/ lib_call \in ParseCalls
       \/ lib_call \in ResolveHeaderCalls

NextLib ==
    \/ CallNormalizeRow
    \/ CallGetSheetData
    \/ CallGetUnique
    \/ CallResolveAsset
    \/ CallSafeFilename
    \/ CallFormatDateTitle
    \/ CallCreateSanitizedTemplateCopy
    \/ CallRowContext
    \/ CallAppFlow
    \/ CallSaveAndLoad
    \/ CallLoadOfflineCache
    \/ CallAppGenerate
    \/ CallCleanAndStructureReport
    \/ CallParseSection
    \/ CallResolveReportHeaderName

SpecLib == InitLib /\ [][NextLib]_vars
\*-- LIB SPEC END

(***************************************************************************)
(* The cache-sync block at the top of the app (app.py 480-490), run once   *)
(* on every rerun of the script.                                           *)
(***************************************************************************)
\* bool(value) for None, a str, a list or a dict
truthy(value) == value.t # "none" /\ value.v # <<>>

\* cache.get(key)
json_get(dict, key) ==
    IF \E i \in 1..Len(dict.v) : dict.v[i][1] = key
    THEN dict.v[CHOOSE i \in 1..Len(dict.v) : dict.v[i][1] = key][2]
    ELSE JNone

\* the list of lists of strings held by a loaded "rows" value
rows_value(rows) == [i \in 1..Len(rows.v) |-> [j \in 1..Len(rows.v[i].v) |-> rows.v[i].v[j].v]]

\* a plausible slip: the cache file is left in place after the append
cache_after_sync_kept(file) == file

\* CACHE_FILE.unlink()
cache_after_sync(file) == NoFile

SyncUploads == {<<>>, << <<KeySiteA, PyList(<<UploadedFile(<<"a">>, <<77>>)>>)>> >>}
InitSync ==
    /\ GenIdle
    /\ SpIdle
    /\ LibIdle
    /\ RepIdle
    /\ sheet_rows = <<>>
    /\ sync_status = "none"
    /\ \/ /\ saved_rows \in SeqsUpTo(RowPool, MaxRows)
          /\ \E u \in SyncUploads : cache_file = save_offline_cache(saved_rows, u)
       \/ /\ saved_rows = <<>>
          /\ cache_file \in {NoFile} \cup CorruptFiles

\* one run of lines 480-490: the cache is loaded, the button is offered when
\* it holds rows, and a press appends the rows and removes the file, or fails
SyncRun ==
    LET cache == load_offline_cache(cache_file)
    IN  IF truthy(cache) /\ truthy(json_get(cache, <<"rows">>))
        THEN \E pressed \in BOOLEAN, append_ok \in BOOLEAN :
                IF ~pressed
                THEN /\ sync_status' = "offered"
                     /\ UNCHANGED <<cache_file, sheet_rows>>
                ELSE IF append_ok
                THEN /\ sheet_rows' = sheet_rows \o rows_value(json_get(cache, <<"rows">>))
                     /\ cache_file' = cache_after_sync(cache_file)
                     /\ sync_status' = "synced"
                ELSE /\ sync_status' = "failed"
                     /\ UNCHANGED <<cache_file, sheet_rows>>
        ELSE /\ sync_status' = "nothing_cached"
             /\ UNCHANGED <<cache_file, sheet_rows>>

NextSync ==
    /\ SyncRun
    /\ UNCHANGED <<saved_rows, genVars, spVars, libVars, repVars>>

SpecSync == InitSync /\ [][NextSync]_vars

\* the first K cells of a raw row, empty where the row has none
FirstCells(row, K) == [i \in 1..K |-> IF i <= Len(row) THEN row[i] ELSE <<>>]

\* C12: after normalization every row has exactly K fields (14 in report.py
\* and sheets.py, 11 in app.py): missing trailing fields are empty strings,
\* fields beyond the K-th are gone, the fields kept are the first K of the
\* raw row in their order.
C12_RowsHaveKFields ==
    lib_ret.returned =>
        /\ lib_call.fn = "normalize_row" =>
              /\ Len(lib_ret.value) = 14
              /\ lib_ret.value = FirstCells(lib_call.row, 14)
        /\ lib_call.fn \in {"sheets.get_sheet_data", "app.get_sheet_data"} =>
              LET K == IF lib_call.fn = "sheets.get_sheet_data" THEN 14 ELSE 11
              IN  \A j \in 1..Len(lib_ret.value) :
                     /\ Len(lib_ret.value[j]) = K
                     /\ lib_ret.value[j] = FirstCells(lib_call.sheet[j], K)

C12_Witness ==
    /\ lib_ret.returned
    /\ lib_call.fn = "normalize_row"
    /\ Len(lib_call.row) > 14
    /\ lib_call.row[2] = <<>>

StrictlyAscending(q) == \A i \in 1..(Len(q) - 1) : str_less(q[i], q[i + 1])
Elements(q) == {q[i] : i \in 1..Len(q)}
\* the trimmed non-empty values of column col (1-based) of the rows long enough to have it
TrimmedColumn(rows, col) ==
    {v \in {strip(rows[j][col]) : j \in {k \in 1..Len(rows) : Len(rows[k]) >= col}} : v # <<>>}

\* C13: get_unique_sites_and_dates returns the strictly ascending lists of
\* the trimmed non-empty values of column 1 (sites) and column 0 (dates);
\* short rows and whitespace-only cells contribute nothing, and no rows
\* give two empty lists.
C13_UniqueSitesAndDates ==
    (lib_ret.returned /\ lib_call.fn = "get_unique_sites_and_dates") =>
        /\ StrictlyAscending(lib_ret.value.sites)
        /\ StrictlyAscending(lib_ret.value.dates)
        /\ Elements(lib_ret.value.sites) = TrimmedColumn(lib_call.rows, 2)
        /\ Elements(lib_ret.value.dates) = TrimmedColumn(lib_call.rows, 1)
        /\ lib_call.rows = <<>> => lib_ret.value = [sites |-> <<>>, dates |-> <<>>]

C13_Witness ==
    /\ lib_ret.returned
    /\ lib_call.fn = "get_unique_sites_and_dates"
    /\ Len(lib_call.rows) = 3
    /\ lib_call.rows[1] = << <<" ", "7">>, <<"A", " ">>, <<"x">> >>
    /\ lib_call.rows[3] = << <<"8">> >>
    /\ Len(lib_ret.value.sites) = 1
    /\ Len(lib_ret.value.dates) = 2

IsFile(fs, path) == \E e \in fs : e.dir = path.dir /\ e.file = path.file /\ e.kind = "file"

\* C14: resolve_asset returns None exactly when the name is falsy or no
\* candidate exists; otherwise it returns the first candidate, in the order
\* of the directories and of the extensions "", .png, .jpg, .jpeg, .webp,
\* that is an existing file.
C14_ResolveAsset ==
    (lib_ret.returned /\ lib_call.fn = "resolve_asset") =>
        LET falsy == lib_call.name.t = "none" \/ lib_call.name.path.file = <<>>
            cands == IF falsy THEN <<>> ELSE candidates(lib_call.name.path)
            present == {i \in 1..Len(cands) : exists(lib_call.fs, cands[i].dir, cands[i].file)}
        IN  /\ lib_ret.value = NoneValue <=> (falsy \/ present = {})
            /\ lib_ret.value # NoneValue =>
                  \E i \in 1..Len(cands) :
                      /\ lib_ret.value = StrValue(cands[i])
                      /\ IsFile(lib_call.fs, cands[i])
                      /\ \A j \in 1..(i - 1) : ~IsFile(lib_call.fs, cands[j])

(***************************************************************************)
(* C15: for every string s and every max_len >= 0, safe_filename(s,        *)
(* max_len) contains none of \ / : * ? " < > |, neither starts nor ends    *)
(* with a dot, a dash or a space, and is at most max_len long.             *)
(***************************************************************************)
C15_SafeFilename ==
    (lib_ret.returned /\ lib_call.fn = "safe_filename") =>
        LET out == lib_ret.value
        IN  /\ \A i \in 1..Len(out) : out[i] \notin IllegalChars
            /\ out # <<>> => /\ out[1] \notin {".", "-", " "}
                             /\ out[Len(out)] \notin {".", "-", " "}
            /\ Len(out) <= lib_call.max_len

(***************************************************************************)
(* C16: format_date_title is idempotent on its own output: for every valid *)
(* date d, format_date_title(format_date_title(d)) = format_date_title(d); *)
(* and a day-first dd/mm/YYYY input maps to dd.mm.YYYY with the same day,  *)
(* month and year (day and month are never swapped).                       *)
(***************************************************************************)
C16_FormatDateTitle ==
    (lib_ret.returned /\ lib_call.fn = "format_date_title") =>
        /\ to_datetime(lib_call.d).ok => format_date_title(lib_ret.value) = lib_ret.value
        /\ \A d \in DayPool, m \in MonthPool, y \in YearPool :
              (is_date(d, m, y)
                  /\ lib_call.d = date_text(zero_pad(d, 2), zero_pad(m, 2), zero_pad(y, 4), "/"))
              => lib_ret.value = date_text(zero_pad(d, 2), zero_pad(m, 2), zero_pad(y, 4), ".")

\* an ambiguous day-first date, 06/08/2025, has been formatted
C16_Witness ==
    /\ lib_ret.returned
    /\ lib_call.fn = "format_date_title"
    /\ lib_call.d = <<"0", "6", "/", "0", "8", "/", "2", "0", "2", "5">>
    /\ lib_ret.value = <<"0", "6", ".", "0", "8", ".", "2", "0", "2", "5">>

(***************************************************************************)
(* C17: _create_sanitized_template_copy never modifies the original        *)
(* template, and the copy has the same parts in the same order, differing  *)
(* only inside UTF-8 decodable .xml parts and only where an 'old' string   *)
(* of PLACEHOLDER_REPLACEMENTS occurred (replaced by its 'new' string);    *)
(* every other part is byte-identical.                                     *)
(***************************************************************************)
OldAt(data, k) ==
    LET old == PLACEHOLDER_REPLACEMENTS[1].old
    IN  k >= 1 /\ k + Len(old) - 1 <= Len(data) /\ SubSeq(data, k, k + Len(old) - 1) = old

C17_SanitizedCopyFrame ==
    (lib_ret.returned /\ lib_call.fn = "create_sanitized_template_copy") =>
        LET orig == lib_call.template
            copy == lib_ret.value.copy
            old == PLACEHOLDER_REPLACEMENTS[1].old
            new == PLACEHOLDER_REPLACEMENTS[1].new
        IN  /\ lib_ret.value.template = orig
            /\ Len(copy) = Len(orig)
            /\ \A i \in 1..Len(orig) :
                  /\ copy[i].filename = orig[i].filename
                  /\ Len(copy[i].data) = Len(orig[i].data)
                  /\ (~endswith_xml(orig[i].filename) \/ ~decodable(orig[i].data))
                        => copy[i].data = orig[i].data
                  /\ \A k \in 1..Len(orig[i].data) :
                        copy[i].data[k] # orig[i].data[k] =>
                            \E s \in 1..k :
                                /\ OldAt(orig[i].data, s)
                                /\ k < s + Len(old)
                                /\ SubSeq(copy[i].data, s, s + Len(new) - 1) = new

\* a template whose document.xml holds the placeholder and whose other part
\* holds it too has been copied; the copy of document.xml differs
C17_Witness ==
    /\ lib_ret.returned
    /\ lib_call.fn = "create_sanitized_template_copy"
    /\ Len(lib_call.template) = 2
    /\ \E i, j \in 1..2 :
          /\ endswith_xml(lib_call.template[i].filename)
          /\ ~endswith_xml(lib_call.template[j].filename)
          /\ OldAt(lib_call.template[j].data, 1)
          /\ lib_ret.value.copy[i].data # lib_call.template[i].data

(***************************************************************************)
(* C18: for every row, the context passed to the template holds, for each  *)
(* i in 0..13, the i-th normalized row field under the i-th key of         *)
(* REPORT_HEADERS (Date and Site_Name trimmed, the others unchanged), the  *)
(* six signatory keys taken from SIGNATORIES[discipline] (names and titles *)
(* non-empty for Civil and Electrical) and the gallery under Images; no    *)
(* key is missing and no two schema fields share a key.                    *)
(***************************************************************************)
NameAndTitleKeys == {"Consultant_Name", "Consultant_Title", "Contractor_Name", "Contractor_Title"}
SignatureKeys == {"Consultant_Signature", "Contractor_Signature"}

C18_ContextFields ==
    (lib_ret.returned /\ lib_call.fn = "row_context") =>
        LET ctx == lib_ret.value.ctx
            cells == FirstCells(lib_call.row, Len(REPORT_HEADERS))
            known == lib_call.discipline \in DOMAIN SIGNATORIES
        IN  /\ Cardinality({REPORT_HEADERS[i] : i \in 1..Len(REPORT_HEADERS)}) = Len(REPORT_HEADERS)
            /\ \A i \in 1..Len(REPORT_HEADERS) :
                  /\ REPORT_HEADERS[i] \in DOMAIN ctx
                  /\ ctx[REPORT_HEADERS[i]] = PyText(IF i <= 2 THEN strip(cells[i]) ELSE cells[i])
            /\ \A k \in NameAndTitleKeys :
                  /\ k \in DOMAIN ctx
                  /\ known => /\ ctx[k] = PyText(SIGNATORIES[lib_call.discipline][k])
                              /\ ctx[k].s # <<>>
                  /\ ~known => ctx[k] = PyText(<<>>)
            /\ \A k \in SignatureKeys :
                  /\ k \in DOMAIN ctx
                  /\ \/ ctx[k] = PyText(<<>>)
                     \/ /\ known
                        /\ ctx[k].t = "InlineImage"
                        /\ stem_of(ctx[k].path.file) = stem_of(SIGNATORIES[lib_call.discipline][k])
                        /\ exists(lib_call.fs, ctx[k].path.dir, ctx[k].path.file)
            /\ "Images" \in DOMAIN ctx
            /\ ctx["Images"] = lib_call.images_subdoc

\* the context of a full row with padded date and site, for Civil, with both
\* signature files in place
C18_Witness ==
    /\ lib_ret.returned
    /\ lib_call.fn = "row_context"
    /\ lib_call.discipline = "Civil"
    /\ Len(lib_call.row) = 14
    /\ strip(lib_call.row[1]) # lib_call.row[1]
    /\ lib_ret.value.ctx["Consultant_Signature"].t = "InlineImage"
    /\ lib_ret.value.ctx["Contractor_Signature"].t = "InlineImage"
    /\ lib_ret.value.ctx["challenges"] = PyText(lib_call.row[14])

(***************************************************************************)
(* C19: every non-fatal condition met during generate_reports is surfaced  *)
(* as a warning and never silently dropped: when a signature asset cannot  *)
(* be resolved, or the template lacks an expected placeholder, rendering   *)
(* proceeds with an empty substitution and a warning for that condition    *)
(* is recorded for the caller.                                             *)
(***************************************************************************)
WarningKinds(ws) == {ws[i].kind : i \in 1..Len(ws)}

C19_WarningsSurfaced ==
    (lib_ret.returned /\ lib_call.fn = "row_context") =>
        LET ctx == lib_ret.value.ctx
            kinds == WarningKinds(lib_ret.value.warnings)
        IN  /\ (required \ lib_call.placeholders # {}) => "missing_placeholders" \in kinds
            /\ \A k \in SignatureKeys :
                  (lib_call.discipline \in DOMAIN SIGNATORIES /\ ctx[k] = PyText(<<>>))
                      => "signature_not_found" \in kinds

(***************************************************************************)
(* C20: a sheet row that is the column-header row is excluded everywhere   *)
(* in the app flow: the site choices, the date choices, the filtered rows  *)
(* and the per-(site, date) uploader slots contain only data rows, sites   *)
(* and dates sorted and rows in sheet order.                               *)
(***************************************************************************)
IsHeaderRow(row) == Len(row) >= 2 /\ strip(row[1]) = HeaderDate /\ strip(row[2]) = HeaderSite

RECURSIVE IsSubsequence(_, _)
IsSubsequence(p, q) ==
    IF p = <<>> THEN TRUE
    ELSE IF q = <<>> THEN FALSE
    ELSE IF Head(p) = Head(q) THEN IsSubsequence(Tail(p), Tail(q))
    ELSE IsSubsequence(p, Tail(q))

C20_HeaderRowExcluded ==
    (lib_ret.returned /\ lib_call.fn = "app_flow" /\ ~lib_ret.value.stopped) =>
        LET v == lib_ret.value
        IN  /\ HeaderSite \notin Elements(v.site_choices)
            /\ HeaderDate \notin Elements(v.date_choices)
            /\ \A i \in 1..Len(v.filtered_rows) : ~IsHeaderRow(v.filtered_rows[i])
            /\ <<HeaderSite, HeaderDate>> \notin Elements(v.site_date_pairs)
            /\ StrictlyAscending(Tail(v.site_choices))
            /\ StrictlyAscending(Tail(v.date_choices))
            /\ IsSubsequence(v.filtered_rows, app_get_sheet_data(lib_call.sheet))

(***************************************************************************)
(* C21: two generate_reports calls with equal inputs produce equal results *)
(* (same entry names, same gallery structure, same context values)         *)
(* whatever calls were made before: generate_reports modifies neither its  *)
(* input rows nor the uploaded-image mapping, and the collision counter    *)
(* does not survive a call.  The renderer is the environment: the calls    *)
(* are compared when it failed at the same row in both, or in neither.     *)
(***************************************************************************)
SameRenderFailures ==
    /\ (exc = "RenderError") = (previous.exc = "RenderError")
    /\ Len(rendered) = Len(previous.rendered)

B64Index(c) == (CHOOSE i \in 1..Len(B64Alphabet) : B64Alphabet[i] = c) - 1

\* base64 decoding: four characters give three bytes, fewer with padding
RECURSIVE b64decode(_)
b64decode(text) ==
    IF text = <<>> THEN <<>>
    ELSE LET a == B64Index(text[1])
             b == B64Index(text[2])
         IN  IF text[3] = "=" THEN <<(a * 64 + b) \div 16>>
             ELSE IF text[4] = "="
             THEN LET n == ((a * 64 + b) * 64 + B64Index(text[3])) \div 4
                  IN  <<n \div 256, n % 256>>
             ELSE LET n == ((a * 64 + b) * 64 + B64Index(text[3])) * 64 + B64Index(text[4])
                  IN  <<n \div 65536, (n \div 256) % 256, n % 256>>
                      \o b64decode(SubSeq(text, 5, Len(text)))

\* the value stored under key in a loaded dict
Lookup(dict, key) == (CHOOSE i \in 1..Len(dict.v) : dict.v[i][1] = key)
HasKey(dict, key) == \E i \in 1..Len(dict.v) : dict.v[i][1] = key
ValueOf(dict, key) == dict.v[Lookup(dict, key)][2]

C22_CacheRoundTrip ==
    /\ (lib_ret.returned /\ lib_call.fn = "save_and_load") =>
          LET data == lib_ret.value
              rows == lib_call.rows
              ups == lib_call.uploads
          IN  /\ data.t = "dict"
              /\ HasKey(data, <<"rows">>) /\ HasKey(data, <<"uploads">>)
              /\ Len(ValueOf(data, <<"rows">>).v) = Len(rows)
              /\ \A i \in 1..Len(rows) :
                    LET r == ValueOf(data, <<"rows">>).v[i]
                    IN  /\ Len(r.v) = Len(rows[i])
                        /\ \A j \in 1..Len(rows[i]) : r.v[j] = JStr(rows[i][j])
              /\ Len(ValueOf(data, <<"uploads">>).v) = Len(ups)
              /\ \A u \in 1..Len(ups) :
                    LET key == ups[u][1][1] \o <<"|">> \o ups[u][1][2]
                        files == IF ups[u][2].t = "none" THEN <<>> ELSE ups[u][2].v
                        loaded == ValueOf(ValueOf(data, <<"uploads">>), key)
                    IN  /\ HasKey(ValueOf(data, <<"uploads">>), key)
                        /\ Len(loaded.v) = Len(files)
                        /\ \A k \in 1..Len(files) :
                              /\ ValueOf(loaded.v[k], <<"name">>) = JStr(files[k].name)
                              /\ b64decode(ValueOf(loaded.v[k], <<"data">>).v) = files[k].bytes
    /\ (lib_ret.returned /\ lib_call.fn = "load_offline_cache"
            /\ lib_call.file \in {MissingFile} \cup CorruptFiles) =>
          lib_ret.value = JNone

\* rows and uploads with two files under one key have been saved and loaded
C22_Witness ==
    /\ lib_ret.returned
    /\ lib_call.fn = "save_and_load"
    /\ Len(lib_call.rows) = 2
    /\ \E u \in 1..Len(lib_call.uploads) :
          /\ lib_call.uploads[u][2].t = "list"
          /\ Len(lib_call.uploads[u][2].v) = 2
    /\ lib_ret.value.t = "dict"

(***************************************************************************)
(* C23: for a row with n uploaded images and effective images_per_row p,   *)
(* the gallery is built from ceil(n/p) one-row tables, each with exactly   *)
(* max(p, 2) columns; the j-th image of group g sits in column j of table  *)
(* g, so every image is embedded exactly once, at the configured width (at *)
(* least 1 mm), in upload order, and cells beyond the group's size stay    *)
(* empty.                                                                  *)
(***************************************************************************)
IsTable(e) == e.kind = "table"
TablesOf(gallery) == SelectSeq(gallery, IsTable)
CeilDiv(n, p) == (n + p - 1) \div p
ImagesOfRow(i) == images_for(uploaded_image_mapping, KeyOfRow(i)[1], KeyOfRow(i)[2])

C24_RenderSaveWriteDelete ==
    pc = "loop" =>
        /\ Len(rendered) = row_no
        /\ Len(archive) = row_no

(***************************************************************************)
(* C25: in a row's gallery a page break is inserted after the image at     *)
(* 0-based index i exactly when (i+1) is a multiple of 2*images_per_row    *)
(* and i is not the last image: breaks occur only at the end of a complete *)
(* grid row, at most two grid rows lie between consecutive breaks, and a   *)
(* break never follows the final image.  In terms of grid rows: a break    *)
(* follows every second table, except the last table of the gallery.       *)
(***************************************************************************)
Kinds(gallery) == [e \in 1..Len(gallery) |-> gallery[e].kind]

RECURSIVE ExpectedKinds(_, _)
ExpectedKinds(g, tables) ==
    IF g > tables THEN <<>>
    ELSE <<"table">>
         \o (IF g % 2 = 0 /\ g < tables THEN <<"page_break">> ELSE <<>>)
         \o ExpectedKinds(g + 1, tables)

C27_LookupKeyIsUploaderKey ==
    (lib_ret.returned /\ lib_call.fn = "app_generate") =>
        \A i \in 1..Len(lib_ret.value.rows) :
            LET row == lib_ret.value.rows[i]
                stored == <<strip(row[2]), strip(row[1])>>
                found == lib_ret.value.lookups[i]
            IN  /\ found.key = stored
                /\ stored \in DOMAIN lib_ret.value.mapping
                /\ found.image_files =
                      (IF lib_call.imgs.t = "list" THEN lib_call.imgs.v ELSE <<>>)

\* the same for report.generate_reports: the key of the row being processed
\* is the trimmed (site, date), and its images are those stored under it
C27_ReportLookup ==
    pc \in {"images", "flush"} =>
        image_bytes = images_for(uploaded_image_mapping,
                                 strip(FirstCells(filtered_rows[row_no], 2)[2]),
                                 strip(FirstCells(filtered_rows[row_no], 2)[1]))

HeaderSet == {HEADER_NAMES[i] : i \in 1..Len(HEADER_NAMES)}

HasExactlyTheHeaders(dict) ==
    /\ dict.t = "dict"
    /\ Len(dict.v) = RowWidth
    /\ {dict.v[i][1] : i \in 1..Len(dict.v)} = HeaderSet
    /\ Cardinality(HeaderSet) = RowWidth

upper_char(c) ==
    IF \E i \in 1..Len(LowerCase) : LowerCase[i] = c
    THEN UpperCase[CHOOSE i \in 1..Len(LowerCase) : LowerCase[i] = c]
    ELSE c
upper(s) == [i \in 1..Len(s) |-> upper_char(s[i])]

IsWordChar(c) == lower_char(c) \in LowerAlnum

\* the key with every run of separator characters between two words replaced by sep
RECURSIVE with_separator(_, _)
with_separator(key, sep) ==
    IF key = <<>> THEN <<>>
    ELSE IF IsWordChar(Head(key)) THEN <<Head(key)>> \o with_separator(Tail(key), sep)
    ELSE LET rest == drop_run_not(key, {c \in KeyChars \cup {":"} : IsWordChar(c)})
         IN  IF rest = <<>> THEN key ELSE sep \o with_separator(rest, sep)

OtherSpellings(key) ==
    {with_separator(k, sep) : k \in {key, lower(key), upper(key)}, sep \in KeySeparators}

C29_ReportHeaderKeys ==
    /\ (lib_call.fn = "clean_and_structure_report" /\ lib_ret.returned) =>
          /\ lib_ret.value.t = "dict" => HasExactlyTheHeaders(lib_ret.value)
          /\ lib_ret.value.t = "list" =>
                \A i \in 1..Len(lib_ret.value.v) : HasExactlyTheHeaders(lib_ret.value.v[i])
    /\ (lib_call.fn = "resolve_report_header_name" /\ lib_ret.returned) =>
          /\ lib_ret.value.t = "none" \/ (lib_ret.value.t = "text" /\ lib_ret.value.s \in HeaderSet)
          /\ lib_call.raw_key \in HeaderSet => lib_ret.value = PyText(lib_call.raw_key)
          /\ \A k \in OtherSpellings(lib_call.raw_key) : resolve_header(k) = lib_ret.value

\* two sections, the second naming its site in upper case with a space and a dash
C29_Witness ==
    /\ lib_call.fn = "clean_and_structure_report"
    /\ lib_ret.returned
    /\ lib_ret.value.t = "list"
    /\ Len(lib_ret.value.v) = 2
    /\ dict_item(lib_ret.value.v[2].v, HEADER_NAMES[2]) = <<"K">>
    /\ dict_item(lib_ret.value.v[1].v, HEADER_NAMES[4]) = <<"D", "i", "g">>

(***************************************************************************)
(* C30: in _parse_section a line that does not begin with a recognised     *)
(* header name is a continuation line: its whole text is appended, after a *)
(* newline, to the field of the current header (Comment_on_work when there *)
(* is none), and the current header stays, also when the line holds ":" or *)
(* "-".                                                                    *)
(***************************************************************************)
recognised(line) ==
    LET match == key_value_match(line)
    IN  match.matched /\ resolve_header(match.key).t # "none"

continuation_line(state, line) ==
    LET header == IF state.current_header.t = "none" THEN Comment_on_work ELSE state.current_header.s
    IN  [result |-> dict_set(state.result, header, append_value(dict_item(state.result, header), line)),
         current_header |-> state.current_header]

RECURSIVE stated_lines(_, _)
stated_lines(state, lines) ==
    IF lines = <<>> THEN state
    ELSE LET line == text_strip(Head(lines))
             next == IF line = <<>> THEN state
                     ELSE IF recognised(line) THEN parse_line(state, line)
                     ELSE continuation_line(state, line)
         IN  stated_lines(next, Tail(lines))

C30_ContinuationLines ==
    (lib_call.fn = "parse_section" /\ lib_ret.returned) =>
        lib_ret.value =
            stated_lines([result |-> [i \in 1..Len(HEADER_NAMES) |-> <<HEADER_NAMES[i], <<>> >>],
                          current_header |-> PyNone],
                         splitlines(lib_call.section)).result

====
